---- MODULE Spec2Model ----
(***************************************************************************)
(* Model of the DLGE dialogue-container codec of tonytools-rs              *)
(* (src/src/hmlanguages/dlge.rs) with the helpers it relies on             *)
(* (byte writer/reader, cipher, hash list, resource meta).                 *)
(*                                                                         *)
(* Representation choices                                                  *)
(*  - a Rust String is the sequence of its UTF-8 bytes (ASCII here);       *)
(*  - a u32 travelling through the stream is its 4 little-endian bytes;    *)
(*    hashes stay in that form, counts / indices / lengths are turned      *)
(*    into naturals with Val32;                                            *)
(*  - Option<T> is <<>> (None) or <<x>> (Some(x));                         *)
(*  - a Result is a record with field k: "Ok", the name of the LangError   *)
(*    variant, or "Panic" when the code aborts (unwrap on None, index out  *)
(*    of bounds).                                                          *)
(***************************************************************************)
EXTENDS Integers, Sequences, FiniteSets, TLC

(***************************************************************************)
(* Bounds of the model                                                     *)
(***************************************************************************)
MaxChildren == 2
MaxAppends == 3
MaxNodes == 4097

(***************************************************************************)
(* Generic helpers                                                         *)
(***************************************************************************)
None == <<>>
Some(x) == <<x>>
IsSome(o) == o # <<>>
Unwrap(o) == o[1]

Range(s) == {s[i] : i \in 1..Len(s)}

RECURSIVE Concat(_)
Concat(ss) == IF ss = <<>> THEN <<>> ELSE Head(ss) \o Concat(Tail(ss))

Drop(s, n) == SubSeq(s, n + 1, Len(s))
Take(s, n) == SubSeq(s, 1, n)

(***************************************************************************)
(* Integer <-> little-endian bytes (ByteWriter::append / ByteReader::read)  *)
(***************************************************************************)
to_le_bytes8(n) == <<n % 256>>
to_le_bytes16(n) == <<n % 256, (n \div 256) % 256>>
to_le_bytes32(n) == <<n % 256, (n \div 256) % 256, (n \div 65536) % 256, (n \div 16777216) % 256>>

from_le_bytes16(b) == b[1] + 256 * b[2]
\* value of a u32 as a natural; values of 2^31 and above do not fit the
\* integers of the checker and saturate at 2^31 - 1, which is larger than
\* every buffer length and every list length of the model
Val32(b) == IF b[4] >= 128 THEN 2147483647
            ELSE b[1] + 256 * b[2] + 65536 * b[3] + 16777216 * b[4]

U32_MAX == <<255, 255, 255, 255>>
U64_MAX == <<255, 255, 255, 255, 255, 255, 255, 255>>
ZERO32 == <<0, 0, 0, 0>>

\* ByteWriter::append
append(buf, bytes) == buf \o bytes

\* ByteWriter::write_sized_vec of bytes: u32 length, then the elements
write_sized_bytes(buf, bytes) == buf \o to_le_bytes32(Len(bytes)) \o bytes

(***************************************************************************)
(* Strings: hex formatting and parsing                                     *)
(***************************************************************************)
HexDigit(n) == IF n < 10 THEN 48 + n ELSE 55 + n
HexByte(b) == <<HexDigit(b \div 16), HexDigit(b % 16)>>

\* format!("{:08X}", h) for a u32 given by its little-endian bytes
FormatHex8(h) == HexByte(h[4]) \o HexByte(h[3]) \o HexByte(h[2]) \o HexByte(h[1])
\* format!("{:06X}", h): at least six digits, eight when the top byte is set
FormatHex6(h) == IF h[4] = 0 THEN HexByte(h[3]) \o HexByte(h[2]) \o HexByte(h[1])
                 ELSE (IF h[4] < 16 THEN <<HexDigit(h[4])>> ELSE HexByte(h[4]))
                      \o HexByte(h[3]) \o HexByte(h[2]) \o HexByte(h[1])
\* format!("{:02X}", n) for n < 256
FormatHex2(n) == HexByte(n)

\* the value of one hex digit character, -1 when the byte is not a hex digit
HexVal(c) == IF c >= 48 /\ c <= 57 THEN c - 48
             ELSE IF c >= 65 /\ c <= 70 THEN c - 55
             ELSE IF c >= 97 /\ c <= 102 THEN c - 87
             ELSE -1

RECURSIVE StripZeros(_)
StripZeros(s) == IF s # <<>> /\ Head(s) = 48 THEN StripZeros(Tail(s)) ELSE s

\* u32::from_str_radix(s, 16): None on an empty string, a non-digit or an
\* overflow (more than eight significant digits); an optional sign '+' is
\* accepted by Rust
from_str_radix16(str) ==
    LET s0 == IF str # <<>> /\ Head(str) = 43 THEN Tail(str) ELSE str
        s == StripZeros(s0)
        n == Len(s)
        d(i) == IF i >= 1 THEN HexVal(s[i]) ELSE 0
    IN IF s0 = <<>> \/ (\E i \in 1..Len(s0) : HexVal(s0[i]) = -1) \/ n > 8 THEN None
       ELSE Some([b \in 1..4 |-> d(n - 2 * b + 2) + 16 * d(n - 2 * b + 1)])

\* crc32fast::hash: a deterministic content hash of the bytes of a string
\* (an Adler-style checksum stands for the CRC polynomial)
RECURSIVE ContentSum(_, _, _)
ContentSum(s, a, b) ==
    IF s = <<>> THEN <<a, b>>
    ELSE ContentSum(Tail(s), (a + Head(s)) % 65521, (b + a + Head(s)) % 65521)

crc32(str) == LET ab == ContentSum(str, 1, 0)
              IN to_le_bytes16(ab[1]) \o to_le_bytes16(ab[2])

\* serde_json::Value::to_string of a JSON string: the JSON text, in quotes
json_to_string(str) == <<34>> \o str \o <<34>>

\* str::split(',') and Vec<String>::join(",")
RECURSIVE SplitAcc(_, _, _)
SplitAcc(s, cur, acc) ==
    IF s = <<>> THEN Append(acc, cur)
    ELSE IF Head(s) = 44 THEN SplitAcc(Tail(s), <<>>, Append(acc, cur))
    ELSE SplitAcc(Tail(s), Append(cur, Head(s)), acc)

split_comma(str) == SplitAcc(str, <<>>, <<>>)

RECURSIVE join_comma(_)
join_comma(v) == IF v = <<>> THEN <<>>
                 ELSE IF Len(v) = 1 THEN v[1]
                 ELSE v[1] \o <<44>> \o join_comma(Tail(v))

(***************************************************************************)
(* Cipher (src/src/util/cipher.rs).  XTEA is a keyed bijection on 8-byte   *)
(* blocks; the model keeps the block structure, the zero padding and the   *)
(* trimming, and uses a keyed byte permutation instead of the Feistel       *)
(* rounds.                                                                 *)
(***************************************************************************)
XTEA == <<55, 119, 82, 83, 158, 73, 6, 117>>

encipher_block(p) == [i \in 1..8 |-> (p[9 - i] + XTEA[i]) % 256]
decipher_block(c) == [j \in 1..8 |-> (c[9 - j] + 256 - XTEA[9 - j]) % 256]

RECURSIVE encipher_u8slice(_)
encipher_u8slice(d) == IF d = <<>> THEN <<>>
                       ELSE encipher_block(Take(d, 8)) \o encipher_u8slice(Drop(d, 8))
RECURSIVE decipher_u8slice(_)
decipher_u8slice(d) == IF d = <<>> THEN <<>>
                       ELSE decipher_block(Take(d, 8)) \o decipher_u8slice(Drop(d, 8))

xtea_encrypt(str) ==
    LET padded == IF Len(str) % 8 # 0 THEN str \o [i \in 1..(8 - (Len(str) % 8)) |-> 0] ELSE str
    IN encipher_u8slice(padded)

RECURSIVE TrimStart(_)
TrimStart(s) == IF s # <<>> /\ Head(s) = 0 THEN TrimStart(Tail(s)) ELSE s
RECURSIVE TrimEnd(_)
TrimEnd(s) == IF s # <<>> /\ s[Len(s)] = 0 THEN TrimEnd(Take(s, Len(s) - 1)) ELSE s
trim_matches0(s) == TrimEnd(TrimStart(s))

\* String::from_utf8 accepts the ASCII range; the model has no multi-byte
\* characters, a byte of 128 or more is reported as malformed UTF-8.
\* The cipher works on whole blocks: another length aborts.
xtea_decrypt(data) ==
    IF Len(data) % 8 # 0 THEN [k |-> "Panic", v |-> <<>>]
    ELSE LET out == decipher_u8slice(data)
         IN IF \E i \in 1..Len(out) : out[i] >= 128 THEN [k |-> "Utf8Error", v |-> <<>>]
            ELSE [k |-> "Ok", v |-> trim_matches0(out)]

(***************************************************************************)
(* Symbol table (src/src/hmlanguages/hashlist.rs): bidirectional maps       *)
(* between 32-bit hashes and symbol strings.                               *)
(***************************************************************************)
\* symbol strings used by the documents of the model
Symbol ==
    [ tagA  |-> <<116, 97>>,   \* "ta"   audio tag present in the table
      tagB  |-> <<116, 98>>,   \* "tb"   audio tag present in the table
      tagX  |-> <<116, 120>>,   \* "tx"   audio tag absent from the table
      key   |-> <<107, 49>>,   \* "k1"   switch key
      dflt  |-> <<100, 48>>,   \* "d0"   default case
      caseA |-> <<99, 97>>,   \* "ca"
      caseB |-> <<99, 98>> ]   \* "cb"

HashListTags == { [hash |-> <<17, 0, 0, 0>>, name |-> Symbol.tagA],
                  [hash |-> <<18, 52, 86, 200>>, name |-> Symbol.tagB] }
HashListSwitches == { [hash |-> <<33, 0, 0, 0>>, name |-> Symbol.key],
                      [hash |-> <<34, 0, 0, 0>>, name |-> Symbol.dflt],
                      [hash |-> <<35, 1, 0, 0>>, name |-> Symbol.caseA],
                      [hash |-> <<36, 0, 0, 144>>, name |-> Symbol.caseB] }

\* BiMap::get_by_right / get_by_left, as Options
get_by_right(bimap, name) ==
    IF \E e \in bimap : e.name = name THEN Some((CHOOSE e \in bimap : e.name = name).hash) ELSE None
get_by_left(bimap, hash) ==
    IF \E e \in bimap : e.hash = hash THEN Some((CHOOSE e \in bimap : e.hash = hash).name) ELSE None

\* hash of a switch-related symbol with the hex / content-hash fallback
SwitchHash(sym) ==
    LET Fallback(parsed) == IF IsSome(parsed) THEN Unwrap(parsed) ELSE crc32(sym)
        Lookup(found) == IF IsSome(found) THEN Unwrap(found) ELSE Fallback(from_str_radix16(sym))
    IN Lookup(get_by_right(HashListSwitches, sym))

\* symbol of a hash with the 8-digit hex fallback
SymbolOrHex(bimap, hash) ==
    LET found == get_by_left(bimap, hash)
    IN IF IsSome(found) THEN Unwrap(found) ELSE FormatHex8(hash)

(***************************************************************************)
(* Dependency list: IndexMap<String, String>, kept as the sequence of its   *)
(* entries in insertion order.                                             *)
(***************************************************************************)
contains_key(depends, path) == \E i \in 1..Len(depends) : depends[i].hash = path
get_index_of(depends, path) == (CHOOSE i \in 1..Len(depends) : depends[i].hash = path) - 1

\* IndexMap::insert: a known key keeps its position and takes the new value
indexmap_insert(depends, path, flag) ==
    IF contains_key(depends, path)
    THEN [i \in 1..Len(depends) |->
            IF depends[i].hash = path THEN [hash |-> path, flag |-> flag] ELSE depends[i]]
    ELSE Append(depends, [hash |-> path, flag |-> flag])

\* DLGE::add_depend: the pair <<new list, index>>
add_depend(depends, path, flag) ==
    IF contains_key(depends, path)
    THEN <<depends, get_index_of(depends, path)>>
    ELSE LET d == indexmap_insert(depends, path, flag) IN <<d, Len(d) - 1>>

(***************************************************************************)
(* Encoder: Container::write and DLGE::process_container                    *)
(***************************************************************************)
OkRes == [k |-> "Ok", v |-> 0]
Err(kind, arg) == [k |-> kind, v |-> arg]
Fail(st, kind, arg) == [st EXCEPT !.err = Err(kind, arg)]
IsOk(st) == st.err.k = "Ok"

\* impl From<DlgeType> for i32
TypeCode(c) == CASE c.type = "WavFile" -> 1
                 [] c.type = "Random" -> 2
                 [] c.type = "Switch" -> 3
                 [] c.type = "Sequence" -> 4
                 [] OTHER -> 21

\* ((type << 12) | (index & 0xFFF)) as u16
PackTag(type, index) == ((type * 4096) % 65536) + (index % 4096)

\* one Metadata entry: u16 type_index, then the sized vector of u32 hashes
MetadataBytes(md) == to_le_bytes16(md.type_index) \o to_le_bytes32(Len(md.hashes)) \o Concat(md.hashes)

RECURSIVE AllMetadataBytes(_)
AllMetadataBytes(mds) == IF mds = <<>> THEN <<>>
                         ELSE MetadataBytes(Head(mds)) \o AllMetadataBytes(Tail(mds))

\* the write as it would be if the record went in front of the bytes written
ContainerWrite_front(buf, type, group_hash, default_hash, metadata) ==
    to_le_bytes8(type) \o group_hash \o default_hash
        \o to_le_bytes32(Len(metadata)) \o AllMetadataBytes(metadata) \o buf

\* Container::write
ContainerWrite(buf, type, group_hash, default_hash, metadata) ==
    buf \o to_le_bytes8(type) \o group_hash \o default_hash
        \o to_le_bytes32(Len(metadata)) \o AllMetadataBytes(metadata)

(***************************************************************************)
(* f64 arithmetic of the weights.  A double is a record [bits, frac]: the  *)
(* significand as a sequence of bits, most significant first, of which the *)
(* last frac are fractional; 53 bits are kept, rounding to nearest, ties   *)
(* to even.                                                                *)
(***************************************************************************)
\* the significand plus one unit in its last place
Increment(bits) ==
    LET zs == {i \in 1..Len(bits) : bits[i] = 0}
        last == CHOOSE i \in zs : \A j \in zs : j <= i
    IN IF zs = {} THEN <<1>> \o [i \in 1..Len(bits) |-> 0]
       ELSE [i \in 1..Len(bits) |-> IF i < last THEN bits[i] ELSE IF i = last THEN 1 ELSE 0]

\* (h as f64) / (0xFFFFFF as f64)
F64Div(h) ==
    LET Bits(n, w) == [i \in 1..w |-> (n \div (2 ^ (w - i))) % 2]
        \* the binary expansion of r / 0xFFFFFF, six bits a step
        RECURSIVE Chunks(_, _)
        Chunks(r, c) == IF c = 0 THEN <<>>
                        ELSE Bits((r * 64) \div 16777215, 6) \o Chunks((r * 64) % 16777215, c - 1)
        \* eight bits before the binary point, 84 after it
        Rounded(expansion) ==
            LET ones == {i \in 1..Len(expansion) : expansion[i] = 1}
                first == CHOOSE i \in ones : \A j \in ones : i <= j
                sig == SubSeq(expansion, first, first + 52)
            IN IF ones = {} THEN [bits |-> <<>>, frac |-> 0]
               ELSE [bits |-> IF expansion[first + 53] = 1 THEN Increment(sig) ELSE sig,
                     frac |-> first + 52 - 8]
    IN Rounded(Bits(h \div 16777215, 8) \o Chunks(h % 16777215, 14))

\* the product as it would read if the scale were 0x1000000
F64MulRound_pow2(q) ==
    LET Bits(n, w) == [i \in 1..w |-> (n \div (2 ^ (w - i))) % 2]
        RECURSIVE ToInt(_)
        ToInt(bits) == IF bits = <<>> THEN 0
                       ELSE 2 * ToInt(SubSeq(bits, 1, Len(bits) - 1)) + bits[Len(bits)]
        \* the significand in three limbs of 24 bits
        m == [i \in 1..(72 - Len(q.bits)) |-> 0] \o q.bits
        m2 == ToInt(SubSeq(m, 1, 24))
        m1 == ToInt(SubSeq(m, 25, 48))
        m0 == ToInt(SubSeq(m, 49, 72))
        Limb(d) == IF d < 0 THEN d + 16777216 ELSE d
        Borrow(d) == IF d < 0 THEN 1 ELSE 0
        \* q * 0x1000000
        product == Bits(m2, 24) \o Bits(m1, 24) \o Bits(m0, 24) \o Bits(0, 24)
        \* the exact product rounded to 53 bits: [bits, drop]
        RoundToF64(bits) ==
            LET ones == {i \in 1..Len(bits) : bits[i] = 1}
                first == CHOOSE i \in ones : \A j \in ones : i <= j
                sig == SubSeq(bits, first, Len(bits))
                head == SubSeq(sig, 1, 53)
                tail == SubSeq(sig, 54, Len(sig))
                up == tail[1] = 1 /\ (head[53] = 1 \/ \E i \in 2..Len(tail) : tail[i] = 1)
            IN IF ones = {} THEN [bits |-> <<>>, drop |-> 0]
               ELSE IF Len(sig) <= 53 THEN [bits |-> sig, drop |-> 0]
               ELSE [bits |-> IF up THEN Increment(head) ELSE head, drop |-> Len(tail)]
        \* round(): to the nearest integer, halves away from zero
        Round(p) ==
            LET n == Len(p.bits)
                k == q.frac - p.drop
            IN IF n = 0 \/ k > n THEN 0
               ELSE IF k <= 0 THEN ToInt(p.bits \o [i \in 1..(0 - k) |-> 0])
               ELSE ToInt(SubSeq(p.bits, 1, n - k)) + p.bits[n - k + 1]
    IN Round(RoundToF64(product))

\* (q * (0xFFFFFF as f64)).round() as u32
F64MulRound(q) ==
    LET Bits(n, w) == [i \in 1..w |-> (n \div (2 ^ (w - i))) % 2]
        RECURSIVE ToInt(_)
        ToInt(bits) == IF bits = <<>> THEN 0
                       ELSE 2 * ToInt(SubSeq(bits, 1, Len(bits) - 1)) + bits[Len(bits)]
        \* the significand in three limbs of 24 bits
        m == [i \in 1..(72 - Len(q.bits)) |-> 0] \o q.bits
        m2 == ToInt(SubSeq(m, 1, 24))
        m1 == ToInt(SubSeq(m, 25, 48))
        m0 == ToInt(SubSeq(m, 49, 72))
        Limb(d) == IF d < 0 THEN d + 16777216 ELSE d
        Borrow(d) == IF d < 0 THEN 1 ELSE 0
        \* q * 0xFFFFFF = q * 0x1000000 - q, limb by limb
        d0 == 0 - m0
        d1 == m0 - m1 - Borrow(d0)
        d2 == m1 - m2 - Borrow(d1)
        product == Bits(m2 - Borrow(d2), 24) \o Bits(Limb(d2), 24) \o Bits(Limb(d1), 24) \o Bits(Limb(d0), 24)
        \* the exact product rounded to 53 bits: [bits, drop]
        RoundToF64(bits) ==
            LET ones == {i \in 1..Len(bits) : bits[i] = 1}
                first == CHOOSE i \in ones : \A j \in ones : i <= j
                sig == SubSeq(bits, first, Len(bits))
                head == SubSeq(sig, 1, 53)
                tail == SubSeq(sig, 54, Len(sig))
                up == tail[1] = 1 /\ (head[53] = 1 \/ \E i \in 2..Len(tail) : tail[i] = 1)
            IN IF ones = {} THEN [bits |-> <<>>, drop |-> 0]
               ELSE IF Len(sig) <= 53 THEN [bits |-> sig, drop |-> 0]
               ELSE [bits |-> IF up THEN Increment(head) ELSE head, drop |-> Len(tail)]
        \* round(): to the nearest integer, halves away from zero
        Round(p) ==
            LET n == Len(p.bits)
                k == q.frac - p.drop
            IN IF n = 0 \/ k > n THEN 0
               ELSE IF k <= 0 THEN ToInt(p.bits \o [i \in 1..(0 - k) |-> 0])
               ELSE ToInt(SubSeq(p.bits, 1, n - k)) + p.bits[n - k + 1]
    IN Round(RoundToF64(product))

\* (value * 0xFFFFFF).round() as u32 for the weight value num/den.  A value
\* with denominator 0xFFFFFF is the quotient the decoder produced, the
\* double nearest to num / 0xFFFFFF.
WeightOfF64(w) ==
    IF w.den = 16777215 THEN to_le_bytes32(F64MulRound(F64Div(w.num)))
    ELSE to_le_bytes32((2 * w.num * 16777215 + w.den) \div (2 * w.den))

\* the subtitle payload of one language slot: write_sized_vec(xtea_encrypt(s))
WriteSubtitle(buf, str) == write_sized_bytes(buf, xtea_encrypt(str))

\* the reference pair of a slot: both identities registered with the
\* Resolver, their indices appended
WriteRefs(st, wav_path, ffx_path, index) ==
    LET Indices(flag, r1) ==
            LET Both(r2) == [st EXCEPT !.depends = r2[1],
                                       !.buf = @ \o to_le_bytes32(r1[2]) \o to_le_bytes32(r2[2])]
            IN Both(add_depend(r1[1], ffx_path, flag))
        Flagged(flag) == Indices(flag, add_depend(st.depends, wav_path, flag))
    IN Flagged(FormatHex2(128 + index))

\* default-locale slot of a WavFile with both default references: the
\* subtitle written after the reference pair (st holds the pair already)
WavDefaultSubtitle(st, wav, language) ==
    IF language \in DOMAIN wav.languages
    THEN LET e == wav.languages[language]
         IN IF e.kind = "str"
            THEN [st EXCEPT !.buf = WriteSubtitle(IF e.str = <<>> THEN append(@, ZERO32) ELSE @, e.str)]
            ELSE [st EXCEPT !.buf = append(@, ZERO32)]
    ELSE [st EXCEPT !.buf = append(@, ZERO32)]

WavDefaultSlot(st, wav, language, index) ==
    WavDefaultSubtitle(WriteRefs(st, Unwrap(wav.default_wav), Unwrap(wav.default_ffx), index),
                       wav, language)

\* the slot as it would read if a missing entry were written as a pair of
\* zero references
WavOtherSlot_zero(st, wav, language, index) ==
    IF language \notin DOMAIN wav.languages
    THEN [st EXCEPT !.buf = append(append(append(@, ZERO32), ZERO32), ZERO32)]
    ELSE LET e == wav.languages[language]
         IN IF e.kind = "obj"
            THEN [WriteRefs(st, json_to_string(e.wav), json_to_string(e.ffx), index)
                    EXCEPT !.buf = IF IsSome(e.subtitle) THEN WriteSubtitle(@, Unwrap(e.subtitle))
                                   ELSE append(@, ZERO32)]
            ELSE IF e.kind = "str"
                 THEN [st EXCEPT !.buf = WriteSubtitle(append(@, U64_MAX), e.str)]
                 ELSE [st EXCEPT !.buf = append(append(@, U64_MAX), ZERO32)]

\* slot of any other language (or of the default locale without default
\* references)
WavOtherSlot(st, wav, language, index) ==
    IF language \notin DOMAIN wav.languages
    THEN [st EXCEPT !.buf = append(append(@, U64_MAX), ZERO32)]
    ELSE LET e == wav.languages[language]
         IN IF e.kind = "obj"
            THEN [WriteRefs(st, json_to_string(e.wav), json_to_string(e.ffx), index)
                    EXCEPT !.buf = IF IsSome(e.subtitle) THEN WriteSubtitle(@, Unwrap(e.subtitle))
                                   ELSE append(@, ZERO32)]
            ELSE IF e.kind = "str"
                 THEN [st EXCEPT !.buf = WriteSubtitle(append(@, U64_MAX), e.str)]
                 ELSE [st EXCEPT !.buf = append(append(@, U64_MAX), ZERO32)]

WavSlot(self, st0, wav, language, index) ==
    LET st == [st0 EXCEPT !.buf = IF self.version = "H2016" THEN append(@, ZERO32) ELSE @]
    IN IF language = self.default_locale /\ IsSome(wav.default_wav) /\ IsSome(wav.default_ffx)
       THEN WavDefaultSlot(st, wav, language, index)
       ELSE WavOtherSlot(st, wav, language, index)

\* for (index, language) in self.lang_map.clone().iter().enumerate()
RECURSIVE WavLanguages(_, _, _, _)
WavLanguages(self, st, wav, index) ==
    IF index >= Len(self.lang_map) THEN st
    ELSE WavLanguages(self, WavSlot(self, st, wav, self.lang_map[index + 1], index), wav, index + 1)

\* hash of the audio tag symbol: get_by_right(..).unwrap()
SoundtagHash(soundtag) == get_by_right(HashListTags, soundtag)

\* hash of the display name
NameHash(wav_name) ==
    LET Fallback(parsed) == IF IsSome(parsed) THEN Unwrap(parsed) ELSE crc32(wav_name)
    IN Fallback(from_str_radix16(wav_name))

ProcessWavFile(self, st, wav) ==
    LET tag == SoundtagHash(wav.soundtag)
    IN IF ~IsSome(tag) THEN Fail([st EXCEPT !.buf = append(@, <<1>>)], "Panic", 0)
       ELSE [WavLanguages(self,
                 [st EXCEPT !.buf = append(append(append(append(@, <<1>>), Unwrap(tag)),
                                                  NameHash(wav.wav_name)),
                                           IF self.version # "H2016" THEN ZERO32 ELSE <<>>)],
                 wav, 0)
               EXCEPT !.indices.wav = @ + 1]

RECURSIVE process_container(_, _, _, _)
RECURSIVE RandomChildren(_, _, _, _)
RECURSIVE SwitchChildren(_, _, _, _)
RECURSIVE SequenceChildren(_, _, _, _)

\* u32 weight of a Random child: hex string, or a fraction scaled by 0xFFFFFF
WeightHash(weight_value) ==
    IF weight_value.kind = "str" THEN from_str_radix16(weight_value.str)
    ELSE Some(WeightOfF64(weight_value))

\* for child in random.containers.clone(): the state and the metadata list
RandomChildren(self, st, children, metadata) ==
    IF children = <<>> THEN [st |-> st, metadata |-> metadata]
    ELSE LET child == Head(children)
         IN IF child.type # "WavFile"
            THEN [st |-> Fail(st, "InvalidReference", 21), metadata |-> metadata]
            ELSE IF ~IsSome(child.weight)
            THEN [st |-> Fail(st, "InvalidReference", 1), metadata |-> metadata]
            ELSE LET st1 == process_container(self, st, child, FALSE)
                     weight_value == Unwrap(child.weight)
                     weight == WeightHash(weight_value)
                 IN IF ~IsOk(st1) THEN [st |-> st1, metadata |-> metadata]
                    ELSE IF weight_value.kind = "other"
                    THEN [st |-> Fail(st1, "Panic", 0), metadata |-> metadata]
                    ELSE IF ~IsSome(weight)
                    THEN [st |-> Fail(st1, "ParseIntError", 0), metadata |-> metadata]
                    ELSE RandomChildren(self, st1, Tail(children),
                            Append(metadata, [type_index |-> PackTag(1, st1.indices.wav),
                                              hashes |-> <<Unwrap(weight)>>]))

\* the match as it would read if a missing list counted as an empty one
SourceCases_default(child) ==
    IF child.type \in {"WavFile", "Random"}
    THEN (IF IsSome(child.cases) THEN child.cases ELSE Some(<<>>))
    ELSE None

\* the match as it would read if every other child type were let through
SourceCases_any(child) ==
    IF child.type \in {"WavFile", "Random"} THEN child.cases ELSE Some(<<>>)

\* the case labels of a Switch child, None when the child may not carry any
SourceCases(child) ==
    IF child.type \in {"WavFile", "Random"} THEN child.cases ELSE None

RECURSIVE CaseHashes(_)
CaseHashes(cases) == IF cases = <<>> THEN <<>>
                     ELSE <<SwitchHash(Head(cases))>> \o CaseHashes(Tail(cases))

\* for child in switch.containers.clone()
SwitchChildren(self, st, children, metadata) ==
    IF children = <<>> THEN [st |-> st, metadata |-> metadata]
    ELSE LET child == Head(children)
             source_cases == SourceCases(child)
         IN IF ~IsSome(source_cases)
            THEN [st |-> Fail(st, "InvalidReference", 21), metadata |-> metadata]
            ELSE LET st1 == process_container(self, st, child, FALSE)
                     index == IF child.type = "WavFile" THEN st1.indices.wav ELSE st1.indices.random
                 IN IF ~IsOk(st1) THEN [st |-> st1, metadata |-> metadata]
                    ELSE SwitchChildren(self, [st1 EXCEPT !.indices.switch = @ + 1], Tail(children),
                            Append(metadata, [type_index |-> PackTag(TypeCode(child), index),
                                              hashes |-> CaseHashes(Unwrap(source_cases))]))

\* for child in sequence.containers.clone()
SequenceChildren(self, st, children, metadata) ==
    IF children = <<>> THEN [st |-> st, metadata |-> metadata]
    ELSE LET child == Head(children)
             st1 == process_container(self, st, child, FALSE)
             index == IF child.type = "WavFile" THEN st1.indices.wav ELSE st1.indices.global
         IN IF ~IsOk(st1) THEN [st |-> st1, metadata |-> metadata]
            ELSE IF child.type \notin {"WavFile", "Random", "Switch"}
            THEN [st |-> Fail(st1, "InvalidReference", 21), metadata |-> metadata]
            ELSE SequenceChildren(self, [st1 EXCEPT !.indices.sequence = @ + 1], Tail(children),
                    Append(metadata, [type_index |-> PackTag(TypeCode(child), index),
                                      hashes |-> <<>>]))

ProcessRandom(self, st, random) ==
    LET Write(r) == IF ~IsOk(r.st) THEN r.st
                    ELSE [r.st EXCEPT !.buf = ContainerWrite(@, 2, ZERO32, ZERO32, r.metadata),
                                      !.indices.global = @ + 1,
                                      !.indices.random = @ + 1]
    IN Write(RandomChildren(self, st, random.containers, <<>>))

\* the guard as it would read if it tested for a positive counter
SwitchSeen_positive(indices) == indices.switch > 0

\* the singleton guard of a Switch
SwitchSeen(indices) == indices.switch # -1

ProcessSwitch(self, st, switch) ==
    IF SwitchSeen(st.indices) THEN Fail(st, "InvalidContainer", 3)
    ELSE LET Write(r) == IF ~IsOk(r.st) THEN r.st
                         ELSE [r.st EXCEPT !.buf = ContainerWrite(@, 3, SwitchHash(switch.switch_key),
                                                                   SwitchHash(switch.default), r.metadata),
                                           !.indices.global = @ + 1,
                                           !.indices.switch = @ + 1]
         IN Write(SwitchChildren(self, st, switch.containers, <<>>))

\* the singleton guard of a Sequence
SequenceSeen(indices) == indices.sequence # -1

ProcessSequence(self, st, sequence) ==
    IF SequenceSeen(st.indices) THEN Fail(st, "InvalidContainer", 4)
    ELSE LET Write(r) == IF ~IsOk(r.st) THEN r.st
                         ELSE [r.st EXCEPT !.buf = ContainerWrite(@, 4, ZERO32, ZERO32, r.metadata),
                                           !.indices.global = @ + 1,
                                           !.indices.sequence = @ + 1]
         IN Write(SequenceChildren(self, st, sequence.containers, <<>>))

\* the 2-byte root tag
RootTag(container, indices) ==
    LET index == IF container.type = "WavFile" THEN indices.wav
                 ELSE IF container.type \in {"Random", "Switch", "Sequence"} THEN indices.global
                 ELSE 21
    IN PackTag(TypeCode(container), index)

process_container(self, st, container, is_root) ==
    LET Tagged(st1) ==
            IF ~IsOk(st1) THEN st1
            ELSE IF is_root
                 THEN [st1 EXCEPT !.buf = append(@, to_le_bytes16(RootTag(container, st1.indices)))]
                 ELSE st1
    IN Tagged(CASE container.type = "WavFile" -> ProcessWavFile(self, st, container)
                [] container.type = "Random" -> ProcessRandom(self, st, container)
                [] container.type = "Switch" -> ProcessSwitch(self, st, container)
                [] container.type = "Sequence" -> ProcessSequence(self, st, container)
                [] OTHER -> st)

(***************************************************************************)
(* DLGE::rebuild                                                           *)
(***************************************************************************)
\* Regex ^[0-9A-F]{16}$
is_valid_hash(hash) ==
    /\ Len(hash) = 16
    /\ \A i \in 1..16 : (hash[i] >= 48 /\ hash[i] <= 57) \/ (hash[i] >= 65 /\ hash[i] <= 70)

\* compute_hash: "00" and fourteen hex digits of a digest of the path (the
\* content sum stands for MD5)
compute_hash(hash) ==
    <<48, 48>> \o SubSeq(FormatHex8(crc32(hash)) \o FormatHex8(crc32(hash \o hash)), 3, 16)

\* ResourceMeta::new: the dependency table serialised beside the bytes
ResourceMeta(hash, depends) ==
    [hash_value |-> IF is_valid_hash(hash) THEN hash ELSE compute_hash(hash),
     hash_reference_data |-> depends]

NoMeta == [hash_value |-> <<>>, hash_reference_data |-> <<>>]

\* The outcome of rebuild on instance self for document json: the instance
\* after the call and the result.
rebuild(self, json) ==
    LET overridden == IsSome(json.langmap)
        old_langmap == self.lang_map
        self1 == [self EXCEPT !.depends = <<>>,
                              !.lang_map = IF overridden THEN split_comma(Unwrap(json.langmap)) ELSE @]
        dep1 == indexmap_insert(<<>>, json.ditl, <<49, 70>>)
        dep2 == indexmap_insert(dep1, json.clng, <<49, 70>>)
        st0 == [buf |-> to_le_bytes32(0) \o to_le_bytes32(1),
                depends |-> dep2,
                indices |-> [global |-> -1, wav |-> -1, random |-> -1, switch |-> -1, sequence |-> -1],
                err |-> OkRes]
        \* the function's tail: st is the state process_container left
        Outcome(st) ==
            IF ~IsOk(st)
            THEN [self |-> [self1 EXCEPT !.depends = st.depends],
                  res |-> [k |-> st.err.k, v |-> st.err.v, file |-> <<>>, meta |-> NoMeta]]
            ELSE [self |-> [self1 EXCEPT !.depends = st.depends,
                                         !.lang_map = IF overridden THEN old_langmap ELSE @],
                  res |-> [k |-> "Ok", v |-> 0, file |-> st.buf,
                           meta |-> ResourceMeta(json.hash, st.depends)]]
    IN Outcome(process_container(self1, st0, json.root, TRUE))

(***************************************************************************)
(* ByteReader over an immutable buffer: the position is the number of      *)
(* bytes consumed.  Every read is an Option, None standing for the         *)
(* reader's NoBytes error.                                                 *)
(***************************************************************************)
Remaining(data, pos) == Len(data) - pos
BytesAt(data, pos, n) == SubSeq(data, pos + 1, pos + n)

\* ByteReader::read::<u8 / u16 / u32> and peek: the bytes read
read_bytes(data, pos, n) == IF Remaining(data, pos) >= n THEN Some(BytesAt(data, pos, n)) ELSE None

\* ByteReader::read_vec::<u32>: [items, pos] or None
read_vec_u32(data, pos) ==
    LET size == read_bytes(data, pos, 4)
        n == Val32(Unwrap(size))
    IN IF ~IsSome(size) THEN None
       ELSE IF n > (Remaining(data, pos + 4) \div 4) THEN None
       ELSE Some([items |-> [i \in 1..n |-> BytesAt(data, pos + 4 + 4 * (i - 1), 4)],
                  pos |-> pos + 4 + 4 * n])

\* ByteReader::read_vec::<u8>: [items, pos] or None
read_vec_u8(data, pos) ==
    LET size == read_bytes(data, pos, 4)
        n == Val32(Unwrap(size))
    IN IF ~IsSome(size) THEN None
       ELSE IF n > Remaining(data, pos + 4) THEN None
       ELSE Some([items |-> BytesAt(data, pos + 4, n), pos |-> pos + 4 + n])

\* the metadata entries of Container::read
RECURSIVE ReadMetadata(_, _, _, _)
ReadMetadata(data, pos, count, acc) ==
    LET Entry(ti, hs) ==
            IF ~IsSome(ti) \/ ~IsSome(hs) THEN None
            ELSE ReadMetadata(data, Unwrap(hs).pos, count - 1,
                     Append(acc, [type_index |-> from_le_bytes16(Unwrap(ti)),
                                  hashes |-> Unwrap(hs).items]))
    IN IF count = 0 THEN Some([metadata |-> acc, pos |-> pos])
       ELSE Entry(read_bytes(data, pos, 2), read_vec_u32(data, pos + 2))

\* Container::read: [type, group_hash, default_hash, metadata, pos] or None
ContainerRead(data, pos) ==
    LET head == read_bytes(data, pos, 13)
        h == Unwrap(head)
        Entries(mds) ==
            IF ~IsSome(mds) THEN None
            ELSE Some([type |-> h[1], group_hash |-> SubSeq(h, 2, 5), default_hash |-> SubSeq(h, 6, 9),
                       metadata |-> Unwrap(mds).metadata, pos |-> Unwrap(mds).pos])
    IN IF ~IsSome(head) THEN None
       ELSE Entries(ReadMetadata(data, pos + 13, Val32(SubSeq(h, 10, 13)), <<>>))

(***************************************************************************)
(* Display name of a WavFile (get_wav_name)                                *)
(***************************************************************************)
HasAt(s, j, pat) == j + Len(pat) - 1 <= Len(s) /\ SubSeq(s, j, j + Len(pat) - 1) = pat

\* leftmost, greedy match of ([^\/]*(?=ext)): a run without '/' followed by ext
RegexFindBefore(s, ext) ==
    LET RunEnd(i) == CHOOSE e \in i..(Len(s) + 1) :
                        /\ (e = Len(s) + 1 \/ s[e] = 47)
                        /\ \A k \in i..(e - 1) : s[k] # 47
        Ends(i) == {j \in i..RunEnd(i) : HasAt(s, j, ext)}
        Least(S) == CHOOSE i \in S : \A k \in S : i <= k
        Greatest(S) == CHOOSE j \in S : \A k \in S : j >= k
        Capture(i0) == SubSeq(s, i0, Greatest(Ends(i0)) - 1)
        Match(Starts) == IF Starts = {} THEN None ELSE Some(Capture(Least(Starts)))
    IN Match({i \in 1..(Len(s) + 1) : Ends(i) # {}})

s_dot_wav == <<46, 119, 97, 118>>
s_dot_animset == <<46, 97, 110, 105, 109, 115, 101, 116>>

get_wav_name(wav_hash, ffx_hash, hash) ==
    LET Name(r, r_ffx) == IF IsSome(r) THEN Unwrap(r)
                          ELSE IF IsSome(r_ffx) THEN Unwrap(r_ffx)
                          ELSE FormatHex8(hash)
    IN IF is_valid_hash(wav_hash) \/ is_valid_hash(ffx_hash) THEN FormatHex8(hash)
       ELSE Name(RegexFindBefore(wav_hash, s_dot_wav), RegexFindBefore(ffx_hash, s_dot_animset))

(***************************************************************************)
(* Decoder: DLGE::convert                                                  *)
(***************************************************************************)
\* IndexMap<usize, T> used by key only: a function on its key set
EmptyMap == <<>>
MapInsert(m, key, val) == (key :> val) @@ m
\* the removal as it would be if the node stayed in its pool
MapRemove_keep(m, key) == m
\* swap_remove(&key)
MapRemove(m, key) == [x \in (DOMAIN m) \ {key} |-> m[x]]

DFail(st, kind, arg) == [st EXCEPT !.err = Err(kind, arg)]

\* the lookup as it would read if every index named the first dependency
RefAt_first(meta, index) ==
    IF index < Len(meta.hash_reference_data) THEN Some(meta.hash_reference_data[1].hash)
    ELSE None

\* meta.hash_reference_data[i].hash: None when the index is out of bounds
RefAt(meta, index) ==
    IF index < Len(meta.hash_reference_data) THEN Some(meta.hash_reference_data[index + 1].hash)
    ELSE None

\* One language slot of a WavFile record.  r = [pos, wav, err].
ReadWavSlot(self, meta, data, r, language, wav_hash) ==
    LET p0 == IF self.version = "H2016" THEN r.pos + 4 ELSE r.pos
        p1 == p0 + 8
        refs == read_bytes(data, p0, 8)
        wav_index == SubSeq(Unwrap(refs), 1, 4)
        ffx_index == SubSeq(Unwrap(refs), 5, 8)
        both == wav_index # U32_MAX /\ ffx_index # U32_MAX
        w == RefAt(meta, Val32(wav_index))
        f == RefAt(meta, Val32(ffx_index))
        is_default == language = self.default_locale
        len == read_bytes(data, p1, 4)
        payload == read_vec_u8(data, p1)
        \* the entry of the language inserted, the position advanced
        Insert(wav1, subtitle, p2) ==
            [r EXCEPT !.pos = p2,
                      !.wav = IF IsSome(subtitle)
                              THEN [wav1 EXCEPT !.languages = MapInsert(@, language, Unwrap(subtitle))]
                              ELSE wav1]
        \* the decrypted payload joins the staged object or stands alone
        Subtitle(staged, str) ==
            IF IsSome(staged) THEN Some([Unwrap(staged) EXCEPT !.subtitle = Some(str)])
            ELSE Some([kind |-> "str", str |-> str])
        \* wav1: the record after the references, staged: the object they
        \* open for a non-default language, text: the payload decrypted
        Slot(wav1, staged, text) ==
            IF both /\ (~IsSome(w) \/ ~IsSome(f)) THEN [r EXCEPT !.err = Err("Panic", 0)]
            ELSE IF ~IsSome(len) THEN [r EXCEPT !.err = Err("ByteReaderError", 0)]
            ELSE IF Unwrap(len) = ZERO32 THEN Insert(wav1, staged, p1 + 4)
            ELSE IF ~IsSome(payload) THEN [r EXCEPT !.err = Err("ByteReaderError", 0)]
            ELSE IF text.k # "Ok" THEN [r EXCEPT !.err = Err(text.k, 0)]
            ELSE Insert(wav1, Subtitle(staged, text.v), Unwrap(payload).pos)
    IN IF Remaining(data, r.pos) < (p0 - r.pos) \/ ~IsSome(refs)
       THEN [r EXCEPT !.err = Err("ByteReaderError", 0)]
       ELSE Slot(IF both /\ is_default
                 THEN [r.wav EXCEPT !.default_wav = w, !.default_ffx = f,
                                    !.wav_name = get_wav_name(Unwrap(w), Unwrap(f), wav_hash)]
                 ELSE r.wav,
                 IF both /\ ~is_default
                 THEN Some([kind |-> "obj", wav |-> Unwrap(w), ffx |-> Unwrap(f), subtitle |-> None])
                 ELSE None,
                 xtea_decrypt(Unwrap(payload).items))

\* for language in self.lang_map.as_slice()
RECURSIVE ReadWavSlots(_, _, _, _, _, _)
ReadWavSlots(self, meta, data, r, i, wav_hash) ==
    IF i > Len(self.lang_map) \/ r.err.k # "Ok" THEN r
    ELSE ReadWavSlots(self, meta, data,
                      ReadWavSlot(self, meta, data, r, self.lang_map[i], wav_hash), i + 1, wav_hash)

\* the record as it would be read if a WavFile took a global index too
ConvertWavFile_global(self, meta, data, st) ==
    LET hlen == IF self.version # "H2016" THEN 13 ELSE 9
        head == read_bytes(data, st.pos, hlen)
        tag_hash == SubSeq(Unwrap(head), 2, 5)
        wav_hash == SubSeq(Unwrap(head), 6, 9)
        wav == [type |-> "WavFile",
                wav_name |-> FormatHex8(wav_hash),
                cases |-> None,
                weight |-> None,
                soundtag |-> SymbolOrHex(HashListTags, tag_hash),
                default_wav |-> None,
                default_ffx |-> None,
                languages |-> EmptyMap]
        Insert(r) ==
            IF r.err.k # "Ok" THEN [st EXCEPT !.err = r.err]
            ELSE [st EXCEPT !.pos = r.pos,
                            !.wav = MapInsert(@, st.indices.wav, r.wav),
                            !.indices.wav = @ + 1,
                            !.indices.global = @ + 1]
    IN IF ~IsSome(head) THEN DFail(st, "ByteReaderError", 0)
       ELSE Insert(ReadWavSlots(self, meta, data, [pos |-> st.pos + hlen, wav |-> wav, err |-> OkRes],
                                1, wav_hash))

\* case 0x01 of the record loop
ConvertWavFile(self, meta, data, st) ==
    LET hlen == IF self.version # "H2016" THEN 13 ELSE 9
        head == read_bytes(data, st.pos, hlen)
        tag_hash == SubSeq(Unwrap(head), 2, 5)
        wav_hash == SubSeq(Unwrap(head), 6, 9)
        wav == [type |-> "WavFile",
                wav_name |-> FormatHex8(wav_hash),
                cases |-> None,
                weight |-> None,
                soundtag |-> SymbolOrHex(HashListTags, tag_hash),
                default_wav |-> None,
                default_ffx |-> None,
                languages |-> EmptyMap]
        Insert(r) ==
            IF r.err.k # "Ok" THEN [st EXCEPT !.err = r.err]
            ELSE [st EXCEPT !.pos = r.pos,
                            !.wav = MapInsert(@, st.indices.wav, r.wav),
                            !.indices.wav = @ + 1]
    IN IF ~IsSome(head) THEN DFail(st, "ByteReaderError", 0)
       ELSE Insert(ReadWavSlots(self, meta, data, [pos |-> st.pos + hlen, wav |-> wav, err |-> OkRes],
                                1, wav_hash))

\* the weight attached to a Random child
DecodeWeight(self, hash) ==
    IF self.hex_precision THEN [kind |-> "str", str |-> FormatHex6(hash)]
    ELSE [kind |-> "f64", num |-> Val32(hash), den |-> 16777215]

\* the loop as it would be if the weight of an entry were left out
RECURSIVE RandomEntries_plain(_, _, _)
RandomEntries_plain(self, mds, c) ==
    IF mds = <<>> THEN c
    ELSE LET metadata == Head(mds)
             type == metadata.type_index \div 4096
             index == metadata.type_index % 4096
         IN IF type # 1 THEN [c EXCEPT !.st = DFail(@, "InvalidReference", type)]
            ELSE IF index \notin DOMAIN c.st.wav THEN [c EXCEPT !.st = DFail(@, "InvalidReference", index % 256)]
            ELSE IF metadata.hashes = <<>> THEN [c EXCEPT !.st = DFail(@, "Panic", 0)]
            ELSE RandomEntries_plain(self, Tail(mds),
                    [st |-> [c.st EXCEPT !.wav = MapRemove(@, index)],
                     containers |-> Append(c.containers,
                          c.st.wav[index])])

\* for metadata in container.metadata (Random): c = [st, containers]
RECURSIVE RandomEntries(_, _, _)
RandomEntries(self, mds, c) ==
    IF mds = <<>> THEN c
    ELSE LET metadata == Head(mds)
             type == metadata.type_index \div 4096
             index == metadata.type_index % 4096
         IN IF type # 1 THEN [c EXCEPT !.st = DFail(@, "InvalidReference", type)]
            ELSE IF index \notin DOMAIN c.st.wav THEN [c EXCEPT !.st = DFail(@, "InvalidReference", index % 256)]
            ELSE IF metadata.hashes = <<>> THEN [c EXCEPT !.st = DFail(@, "Panic", 0)]
            ELSE RandomEntries(self, Tail(mds),
                    [st |-> [c.st EXCEPT !.wav = MapRemove(@, index)],
                     containers |-> Append(c.containers,
                          [c.st.wav[index] EXCEPT !.weight = Some(DecodeWeight(self, metadata.hashes[1]))])])

\* the table as it would read if it were keyed by the local index
AssignGlobal_local(st, local) ==
    [st EXCEPT !.indices.global = @ + 1,
               !.globals = MapInsert(@, local, local)]

\* the next shared global index is assigned to the container just inserted
AssignGlobal(st, local) ==
    [st EXCEPT !.indices.global = @ + 1,
               !.globals = MapInsert(@, st.indices.global + 1, local)]

\* case 0x02 of the record loop
ConvertRandom(self, data, st) ==
    LET Insert(c) ==
            IF c.st.err.k # "Ok" THEN c.st
            ELSE [AssignGlobal([c.st EXCEPT !.random =
                                    MapInsert(@, st.indices.random,
                                              [type |-> "Random", cases |-> None,
                                               containers |-> c.containers])],
                               st.indices.random)
                    EXCEPT !.indices.random = @ + 1]
        Entries(container) ==
            IF ~IsSome(container) THEN DFail(st, "ByteReaderError", 0)
            ELSE Insert(RandomEntries(self, Unwrap(container).metadata,
                            [st |-> [st EXCEPT !.pos = Unwrap(container).pos], containers |-> <<>>]))
    IN Entries(ContainerRead(data, st.pos))

\* the symbol of a switch hash, or the hash as hex digits
SwitchSymbol(hash) == SymbolOrHex(HashListSwitches, hash)

RECURSIVE CaseSymbols(_)
CaseSymbols(hashes) == IF hashes = <<>> THEN <<>>
                       ELSE <<SwitchSymbol(Head(hashes))>> \o CaseSymbols(Tail(hashes))

\* for metadata in container.metadata (Switch)
RECURSIVE SwitchEntries(_, _)
SwitchEntries(mds, c) ==
    IF mds = <<>> THEN c
    ELSE LET metadata == Head(mds)
             type == metadata.type_index \div 4096
             index == metadata.type_index % 4096
             cases == CaseSymbols(metadata.hashes)
         IN IF type # 1 /\ type # 2 THEN [c EXCEPT !.st = DFail(@, "InvalidReference", type)]
            ELSE IF type = 1
            THEN IF index \notin DOMAIN c.st.wav THEN [c EXCEPT !.st = DFail(@, "InvalidReference", index % 256)]
                 ELSE SwitchEntries(Tail(mds),
                        [st |-> [c.st EXCEPT !.wav = MapRemove(@, index)],
                         containers |-> Append(c.containers, [c.st.wav[index] EXCEPT !.cases = Some(cases)])])
            ELSE IF index \notin DOMAIN c.st.random THEN [c EXCEPT !.st = DFail(@, "InvalidReference", index % 256)]
                 ELSE SwitchEntries(Tail(mds),
                        [st |-> [c.st EXCEPT !.random = MapRemove(@, index)],
                         containers |-> Append(c.containers, [c.st.random[index] EXCEPT !.cases = Some(cases)])])

\* case 0x03 of the record loop
ConvertSwitch(data, st) ==
    LET Insert(container, c) ==
            IF c.st.err.k # "Ok" THEN c.st
            ELSE [AssignGlobal([c.st EXCEPT !.switch =
                                    MapInsert(@, st.indices.switch,
                                              [type |-> "Switch",
                                               switch_key |-> SwitchSymbol(container.group_hash),
                                               default |-> SwitchSymbol(container.default_hash),
                                               containers |-> c.containers])],
                               st.indices.switch)
                    EXCEPT !.indices.switch = @ + 1]
        Entries(container) ==
            IF ~IsSome(container) THEN DFail(st, "ByteReaderError", 0)
            ELSE Insert(Unwrap(container),
                        SwitchEntries(Unwrap(container).metadata,
                            [st |-> [st EXCEPT !.pos = Unwrap(container).pos], containers |-> <<>>]))
    IN Entries(ContainerRead(data, st.pos))

\* globals[&index]: the local index recorded for a global index
GlobalLookup(globals, gindex) == IF gindex \in DOMAIN globals THEN Some(globals[gindex]) ELSE None

\* for metadata in container.metadata (Sequence)
RECURSIVE SequenceEntries(_, _)
SequenceEntries(mds, c) ==
    IF mds = <<>> THEN c
    ELSE LET metadata == Head(mds)
             type == metadata.type_index \div 4096
             packed == metadata.type_index % 4096
             looked == GlobalLookup(c.st.globals, packed)
             index == IF type \in {2, 3} THEN Unwrap(looked) ELSE packed
             pool == CASE type = 1 -> c.st.wav
                       [] type = 2 -> c.st.random
                       [] type = 3 -> c.st.switch
                       [] OTHER -> EmptyMap
         IN IF type = 4 THEN [c EXCEPT !.st = DFail(@, "InvalidReference", type)]
            ELSE IF type \in {2, 3} /\ ~IsSome(looked) THEN [c EXCEPT !.st = DFail(@, "Panic", 0)]
            ELSE IF type \notin {1, 2, 3} THEN SequenceEntries(Tail(mds), c)
            ELSE IF index \notin DOMAIN pool THEN [c EXCEPT !.st = DFail(@, "InvalidReference", index % 256)]
            ELSE SequenceEntries(Tail(mds),
                    [st |-> CASE type = 1 -> [c.st EXCEPT !.wav = MapRemove(@, index)]
                              [] type = 2 -> [c.st EXCEPT !.random = MapRemove(@, index)]
                              [] OTHER -> [c.st EXCEPT !.switch = MapRemove(@, index)],
                     containers |-> Append(c.containers, pool[index])])

\* case 0x04 of the record loop
ConvertSequence(data, st) ==
    LET Insert(c) ==
            IF c.st.err.k # "Ok" THEN c.st
            ELSE [AssignGlobal([c.st EXCEPT !.sequence =
                                    MapInsert(@, st.indices.sequence,
                                              [type |-> "Sequence", containers |-> c.containers])],
                               st.indices.sequence)
                    EXCEPT !.indices.sequence = @ + 1]
        Entries(container) ==
            IF ~IsSome(container) THEN DFail(st, "ByteReaderError", 0)
            ELSE Insert(SequenceEntries(Unwrap(container).metadata,
                            [st |-> [st EXCEPT !.pos = Unwrap(container).pos], containers |-> <<>>]))
    IN Entries(ContainerRead(data, st.pos))

\* one iteration of the record loop: peek the tag byte, read one record
ConvertRecord(self, meta, data, st) ==
    LET tag == read_bytes(data, st.pos, 1)
        n == Unwrap(tag)[1]
    IN IF ~IsSome(tag) THEN DFail(st, "ByteReaderError", 0)
       ELSE CASE n = 1 -> ConvertWavFile(self, meta, data, st)
              [] n = 2 -> ConvertRandom(self, data, st)
              [] n = 3 -> ConvertSwitch(data, st)
              [] n = 4 -> ConvertSequence(data, st)
              [] OTHER -> DFail(st, "InvalidContainer", n)

\* the loop as it would be if it stopped after one record
ConvertLoop_once(self, meta, data, st) ==
    IF st.err.k # "Ok" \/ Remaining(data, st.pos) = 2 THEN st
    ELSE ConvertRecord(self, meta, data, st)

\* while buf.cursor.len() != 2
RECURSIVE ConvertLoop(_, _, _, _)
ConvertLoop(self, meta, data, st) ==
    IF st.err.k # "Ok" \/ Remaining(data, st.pos) = 2 THEN st
    ELSE ConvertLoop(self, meta, data, ConvertRecord(self, meta, data, st))

\* the root named by the trailing tag: Some(node), None when a lookup aborts
RootLookup(st, root_type, root_index) ==
    LET pool == CASE root_type = 2 -> st.random
                  [] root_type = 3 -> st.switch
                  [] OTHER -> st.sequence
        Global(global_index) ==
            IF IsSome(global_index) /\ Unwrap(global_index) \in DOMAIN pool
            THEN Some(pool[Unwrap(global_index)]) ELSE None
    IN IF root_type = 1
       THEN (IF root_index \in DOMAIN st.wav THEN Some(st.wav[root_index]) ELSE None)
       ELSE Global(GlobalLookup(st.globals, root_index))

NullContainer == [type |-> "Null"]

\* DLGE::convert: the result record [k, v, json]
convert(self, data, meta) ==
    LET lead1 == read_bytes(data, 0, 4)
        ditl == RefAt(meta, Val32(Unwrap(lead1)))
        lead2 == read_bytes(data, 4, 4)
        clng == RefAt(meta, Val32(Unwrap(lead2)))
        st0 == [pos |-> 8, wav |-> EmptyMap, random |-> EmptyMap, switch |-> EmptyMap,
                sequence |-> EmptyMap,
                indices |-> [global |-> -1, wav |-> 0, random |-> 0, switch |-> 0, sequence |-> 0],
                globals |-> EmptyMap, err |-> OkRes]
        bad(kind, arg) == [k |-> kind, v |-> arg, json |-> NullContainer]
        \* the document around the root container
        Document(node) ==
            IF ~IsSome(node) THEN bad("Panic", 0)
            ELSE [k |-> "Ok", v |-> 0,
                  json |-> [hash |-> meta.hash_value,
                            ditl |-> Unwrap(ditl), clng |-> Unwrap(clng),
                            langmap |-> IF self.custom_langmap THEN Some(join_comma(self.lang_map))
                                        ELSE None,
                            root |-> Unwrap(node)]]
        \* the trailing tag names the root
        Root(st, root_type, root_index) ==
            IF root_type \notin {1, 2, 3, 4} THEN bad("InvalidContainer", root_type % 256)
            ELSE Document(RootLookup(st, root_type, root_index))
        Tag(st, root) == Root(st, root \div 4096, root % 4096)
        \* after the record loop
        Records(st) ==
            IF st.err.k # "Ok" THEN bad(st.err.k, st.err.v)
            ELSE IF Len(data) - st.pos # 2 THEN bad("DidNotReachEOF", 0)
            ELSE Tag(st, from_le_bytes16(BytesAt(data, st.pos, 2)))
    IN IF ~IsSome(lead1) THEN bad("ByteReaderError", 0)
       ELSE IF ~IsSome(ditl) THEN bad("Panic", 0)
       ELSE IF ~IsSome(lead2) THEN bad("ByteReaderError", 0)
       ELSE IF ~IsSome(clng) THEN bad("Panic", 0)
       ELSE Records(ConvertLoop(self, meta, data, st0))

(***************************************************************************)
(* DLGE::new                                                               *)
(***************************************************************************)
\* the language codes
Locale ==
    [ xx |-> <<120, 120>>,   \* "xx"
      en |-> <<101, 110>>,   \* "en"
      fr |-> <<102, 114>>,   \* "fr"
      it |-> <<105, 116>>,   \* "it"
      de |-> <<100, 101>>,   \* "de"
      es |-> <<101, 115>>,   \* "es"
      ru |-> <<114, 117>>,   \* "ru"
      mx |-> <<109, 120>>,   \* "mx"
      br |-> <<98, 114>>,   \* "br"
      pl |-> <<112, 108>>,   \* "pl"
      cn |-> <<99, 110>>,   \* "cn"
      jp |-> <<106, 112>>,   \* "jp"
      tc |-> <<116, 99>> ]   \* "tc"

\* the language list of an engine version, None for an unsupported version
DefaultLangMap(version) ==
    CASE version = "H2016" -> Some(<<Locale.xx, Locale.en, Locale.fr, Locale.it, Locale.de, Locale.es, Locale.ru, Locale.mx, Locale.br, Locale.pl, Locale.cn, Locale.jp>>)
      [] version = "H2" -> Some(<<Locale.xx, Locale.en, Locale.fr, Locale.it, Locale.de, Locale.es, Locale.ru, Locale.mx, Locale.br, Locale.pl, Locale.cn, Locale.jp, Locale.tc>>)
      [] version = "H3" -> Some(<<Locale.xx, Locale.en, Locale.fr, Locale.it, Locale.de, Locale.es, Locale.ru, Locale.cn, Locale.tc, Locale.jp>>)
      [] OTHER -> None

NoInstance == [version |-> "", lang_map |-> <<>>, default_locale |-> <<>>, hex_precision |-> FALSE,
               custom_langmap |-> FALSE, depends |-> <<>>]

\* DLGE::new: [k, self]
DLGE_new(version, lang_map, default_locale, hex_precision) ==
    LET map == IF IsSome(lang_map) THEN lang_map ELSE DefaultLangMap(version)
    IN IF ~IsSome(map) THEN [k |-> "UnsupportedVersion", self |-> NoInstance]
       ELSE [k |-> "Ok",
             self |-> [version |-> version,
                       lang_map |-> Unwrap(map),
                       default_locale |-> IF IsSome(default_locale) THEN Unwrap(default_locale) ELSE Locale.en,
                       hex_precision |-> hex_precision,
                       custom_langmap |-> IsSome(lang_map),
                       depends |-> <<>>]]

(***************************************************************************)
(* Inputs: constructor arguments and documents                             *)
(***************************************************************************)
\* constructor arguments [version, lang_map, default_locale, hex_precision]
CtorArgs ==
    { [version |-> "H3", lang_map |-> Some(<<Locale.xx, Locale.en, Locale.fr>>), default_locale |-> None, hex_precision |-> FALSE],
      [version |-> "H2016", lang_map |-> Some(<<Locale.en, Locale.fr>>), default_locale |-> Some(Locale.en), hex_precision |-> TRUE],
      [version |-> "H3", lang_map |-> None, default_locale |-> None, hex_precision |-> FALSE],
      [version |-> "HMA", lang_map |-> None, default_locale |-> None, hex_precision |-> FALSE],
      [version |-> "Alpha", lang_map |-> Some(<<Locale.en>>), default_locale |-> None, hex_precision |-> FALSE] }

\* strings of the documents: references, names, subtitles, language maps, weights
Text ==
    [ ditl   |-> <<48, 48, 68, 49, 55, 49, 48, 48, 48, 48, 48, 48, 48, 48, 65, 65>>,   \* "00D17100000000AA"
      clng   |-> <<48, 48, 67, 49, 65, 54, 48, 48, 48, 48, 48, 48, 48, 48, 66, 66>>,   \* "00C1A600000000BB"
      wav1   |-> <<97, 47, 118, 49, 46, 119, 97, 118>>,   \* "a/v1.wav"
      ffx1   |-> <<97, 47, 102, 49, 46, 97, 110, 105, 109, 115, 101, 116>>,   \* "a/f1.animset"
      wav2   |-> <<97, 47, 118, 50, 46, 119, 97, 118>>,   \* "a/v2.wav"
      hashW  |-> <<48, 48, 65, 65, 48, 48, 48, 48, 48, 48, 48, 48, 66, 69, 69, 70>>,   \* "00AA00000000BEEF"
      hashF  |-> <<48, 48, 70, 70, 48, 48, 48, 48, 48, 48, 48, 48, 66, 69, 69, 70>>,   \* "00FF00000000BEEF"
      v1     |-> <<118, 49>>,   \* "v1"
      hex    |-> <<48, 48, 48, 48, 66, 69, 69, 70>>,   \* "0000BEEF"
      hi     |-> <<72, 105>>,   \* "Hi"
      yo     |-> <<89, 111>>,   \* "Yo"
      enfr   |-> <<101, 110, 44, 102, 114>>,   \* "en,fr"
      xxenfr |-> <<120, 120, 44, 101, 110, 44, 102, 114>>,   \* "xx,en,fr"
      w7F    |-> <<55, 70, 70, 70, 70, 70>>,   \* "7FFFFF"
      bad    |-> <<122, 122>> ]   \* "zz"

StrEntry(str) == [kind |-> "str", str |-> str]
ObjEntry(wav, ffx, subtitle) == [kind |-> "obj", wav |-> wav, ffx |-> ffx, subtitle |-> subtitle]

Wav(name, soundtag, dwav, dffx, languages) ==
    [type |-> "WavFile", wav_name |-> name, cases |-> None, weight |-> None, soundtag |-> soundtag,
     default_wav |-> dwav, default_ffx |-> dffx, languages |-> languages]

\* the leaves of the documents
Leaf ==
    LET Of(text, symbol, locale) ==
        [ Plain     |-> Wav(text.v1, symbol.tagA, Some(text.wav1), Some(text.ffx1), (locale.en :> StrEntry(text.hi))),
          Bare      |-> Wav(text.v1, symbol.tagA, Some(text.wav1), Some(text.ffx1),
                            (locale.en :> StrEntry(text.hi)) @@ (locale.fr :> StrEntry(text.yo))),
          \* the fr object shares its effects reference with the default
          Obj       |-> Wav(text.v1, symbol.tagB, Some(text.wav1), Some(text.ffx1),
                            (locale.en :> StrEntry(text.hi))
                            @@ (locale.fr :> ObjEntry(text.wav2, text.ffx1, Some(text.yo)))),
          ObjOnly   |-> Wav(text.v1, symbol.tagA, Some(text.wav1), Some(text.ffx1),
                            (locale.fr :> ObjEntry(text.wav2, text.wav2, None))),
          Empty     |-> Wav(text.v1, symbol.tagA, Some(text.wav1), Some(text.ffx1), (locale.en :> StrEntry(<<>>))),
          NoTag     |-> Wav(text.v1, symbol.tagX, Some(text.wav1), Some(text.ffx1), (locale.en :> StrEntry(text.hi))),
          NoDefault |-> Wav(text.hex, symbol.tagA, None, None, (locale.en :> StrEntry(text.hi))),
          Hash      |-> Wav(text.hex, symbol.tagB, Some(text.hashW), Some(text.hashF), EmptyMap),
          Silent    |-> Wav(text.v1, symbol.tagA, Some(text.wav1), Some(text.ffx1), EmptyMap) ]
    IN Of(Text, Symbol, Locale)

Leaves == {Leaf[k] : k \in DOMAIN Leaf}

WeightF64(num) == [kind |-> "f64", num |-> num, den |-> 16777215]
WeightStr(str) == [kind |-> "str", str |-> str]

Weighted(wav, weight) == [wav EXCEPT !.weight = Some(weight)]
WithCases(node, cases) == [node EXCEPT !.cases = Some(cases)]

RandomOf(children) == [type |-> "Random", cases |-> None, containers |-> children]
SwitchOf(children) == [type |-> "Switch", switch_key |-> Symbol.key, default |-> Symbol.dflt, containers |-> children]
SequenceOf(children) == [type |-> "Sequence", containers |-> children]

\* n copies of one child, n up to MaxChildren
Copies(child) == {[i \in 1..n |-> child] : n \in 1..MaxChildren}

RandomChild == Weighted(Leaf.Plain, WeightF64(16777215))
RandomChildHex == Weighted(Leaf.Obj, WeightStr(Text.w7F))
Random1 == RandomOf(<<RandomChild>>)
SwitchWav == WithCases(Leaf.Plain, <<Symbol.caseA, Symbol.caseB>>)
SwitchRandom == WithCases(Random1, <<Symbol.caseA>>)
Switch1 == SwitchOf(<<SwitchWav>>)

Randoms ==
    {RandomOf(<<>>), RandomOf(<<Weighted(Leaf.Plain, WeightF64(0))>>), RandomOf(<<RandomChildHex>>), RandomOf(<<Leaf.Plain>>),
     RandomOf(<<Weighted(Leaf.Plain, WeightStr(Text.bad))>>),
     RandomOf(<<Weighted(Leaf.Plain, [kind |-> "other"])>>),
     RandomOf(<<RandomChild, SwitchOf(<<>>)>>), RandomOf(<<SwitchOf(<<>>)>>),
     RandomOf(<<NullContainer>>), RandomOf(<<Random1>>), RandomOf(<<RandomChild, SequenceOf(<<>>)>>),
     RandomOf(<<RandomChild, Leaf.Plain>>),
     RandomOf(<<RandomChild, Weighted(Leaf.Bare, WeightF64(0))>>)}
    \cup {RandomOf(c) : c \in Copies(RandomChild)}

Switches ==
    {SwitchOf(<<>>), SwitchOf(<<SwitchRandom>>), SwitchOf(<<SwitchWav, SwitchRandom>>),
     SwitchOf(<<Leaf.Plain>>), SwitchOf(<<Random1>>), SwitchOf(<<SwitchOf(<<>>)>>),
     SwitchOf(<<SwitchWav, Leaf.Plain>>), SwitchOf(<<SwitchRandom, Random1>>),
     SwitchOf(<<SwitchWav, SwitchOf(<<>>)>>), SwitchOf(<<SequenceOf(<<>>)>>),
     SwitchOf(<<NullContainer>>), SwitchOf(<<WithCases(Leaf.Obj, <<>>)>>),
     SwitchOf(<<WithCases(RandomOf(<<SwitchOf(<<>>)>>), <<Symbol.caseA>>)>>)}
    \cup {SwitchOf(c) : c \in Copies(SwitchWav)}

Sequences ==
    {SequenceOf(<<>>), SequenceOf(<<Random1, Switch1>>), SequenceOf(<<Switch1, Random1>>),
     SequenceOf(<<Leaf.Obj, Random1>>),
     SequenceOf(<<SwitchOf(<<>>)>>), SequenceOf(<<SwitchOf(<<>>), SwitchOf(<<>>)>>),
     SequenceOf(<<Switch1, Switch1>>), SequenceOf(<<Switch1, Leaf.Plain, SwitchOf(<<>>)>>),
     SequenceOf(<<SwitchOf(<<SwitchRandom>>)>>),
     SequenceOf(<<SequenceOf(<<>>)>>), SequenceOf(<<Leaf.Plain, SequenceOf(<<>>)>>),
     SequenceOf(<<SequenceOf(<<Leaf.Plain>>)>>), SequenceOf(<<Switch1, SequenceOf(<<>>)>>),
     SequenceOf(<<NullContainer>>), SequenceOf(<<RandomOf(<<SwitchOf(<<>>)>>), Switch1>>),
     SequenceOf(<<Random1, Random1, Switch1>>)}
    \cup {SequenceOf(c) : c \in Copies(Leaf.Plain)}
    \cup {SequenceOf(c) : c \in Copies(Random1)}

Roots == Leaves \cup Randoms \cup Switches \cup Sequences \cup {NullContainer}

Doc(ditl, clng, langmap, root) ==
    [hash |-> Text.hashW, ditl |-> ditl, clng |-> clng, langmap |-> langmap, root |-> root]

\* the documents handed to rebuild
Docs ==
    {Doc(Text.ditl, Text.clng, None, r) : r \in Roots}
    \cup {Doc(Text.ditl, Text.ditl, None, r) : r \in {Leaf.Plain, Random1}}
    \cup {Doc(Text.ditl, Text.clng, Some(lm), r) :
            lm \in {Text.enfr, Text.xxenfr},
            r \in {Leaf.Plain, Leaf.Obj, Leaf.Silent, Random1, RandomOf(<<RandomChildHex>>),
                   RandomOf(<<Leaf.Plain>>), Switch1, SequenceOf(<<Random1, Switch1>>),
                   SequenceOf(<<Switch1, Switch1>>), Leaf.NoTag}}

(***************************************************************************)
(* Inputs: original byte buffers with their dependency lists, laid out as  *)
(* the binary layout prescribes for the instance that reads them           *)
(***************************************************************************)
\* one language slot: reserved field (H2016), two indices, payload
BSlot(self, wav_index, ffx_index, payload) ==
    (IF self.version = "H2016" THEN ZERO32 ELSE <<>>) \o wav_index \o ffx_index
    \o to_le_bytes32(Len(payload)) \o payload

\* the slots of a WavFile record: spec maps a language to its slot, the
\* other languages hold the sentinel pair and no payload
RECURSIVE BSlots(_, _, _)
BSlots(self, spec, i) ==
    IF i > Len(self.lang_map) THEN <<>>
    ELSE LET language == self.lang_map[i]
         IN (IF language \in DOMAIN spec
             THEN BSlot(self, spec[language].wav, spec[language].ffx, spec[language].payload)
             ELSE BSlot(self, U32_MAX, U32_MAX, <<>>))
            \o BSlots(self, spec, i + 1)

BWav(self, tag_hash, name_hash, spec) ==
    <<1>> \o tag_hash \o name_hash \o (IF self.version # "H2016" THEN ZERO32 ELSE <<>>)
    \o BSlots(self, spec, 1)

BMeta(type, index, hashes) == to_le_bytes16(type * 4096 + index) \o to_le_bytes32(Len(hashes)) \o Concat(hashes)

BContainer(type, group_hash, default_hash, metadata) ==
    <<type>> \o group_hash \o default_hash \o to_le_bytes32(Len(metadata)) \o Concat(metadata)

BStream(ditl_index, clng_index, records, root_type, root_index) ==
    to_le_bytes32(ditl_index) \o to_le_bytes32(clng_index) \o Concat(records)
    \o to_le_bytes16(root_type * 4096 + root_index)

BDep(hash, flag) == [hash |-> hash, flag |-> flag]
\* flag of a reference of a language: 0x80 + its position in the language map
BFlag(self, language) ==
    LET at == {i \in 1..Len(self.lang_map) : self.lang_map[i] = language}
    IN FormatHex2(128 + (IF at = {} THEN 0 ELSE (CHOOSE i \in at : \A k \in at : i <= k) - 1))

\* the dependency list of an original: DITL, CLNG, the default references
\* and, when the fr slot is filled, its audio reference
BDeps(self, shared) ==
    <<BDep(Text.ditl, <<49, 70>>), BDep(Text.clng, <<49, 70>>),
      BDep(Text.wav1, BFlag(self, Locale.en)), BDep(Text.ffx1, BFlag(self, Locale.en))>>
    \o (IF shared /\ Locale.fr \in Range(self.lang_map) THEN <<BDep(Text.wav2, BFlag(self, Locale.fr))>> ELSE <<>>)
BMetaJson(self, shared) == [hash_value |-> Text.hashW, hash_reference_data |-> BDeps(self, shared)]

\* hashes of the symbols and a weight, as they stand in a stream
Hash ==
    [ tagA  |-> <<17, 0, 0, 0>>,
      caseA |-> <<35, 1, 0, 0>>,
      key   |-> <<33, 0, 0, 0>>,
      dflt  |-> <<34, 0, 0, 0>>,
      wFF   |-> <<255, 255, 255, 0>> ]
ix(n) == to_le_bytes32(n)

\* slots of the leaves of the original buffers
SlotSpec ==
    LET en(payload) == (Locale.en :> [wav |-> ix(2), ffx |-> ix(3), payload |-> payload])
    IN [ Default |-> en(xtea_encrypt(Text.hi)),
         \* the fr slot shares dependency 3 with the default slot
         Shared  |-> en(xtea_encrypt(Text.hi))
                     @@ (Locale.fr :> [wav |-> ix(4), ffx |-> ix(3), payload |-> xtea_encrypt(Text.yo)]),
         Silent  |-> en(<<>>) ]

BLeaf(self, spec) == BWav(self, Hash.tagA, crc32(Text.v1), spec)

\* 24-bit weights of the original buffers: the ends of the range, its
\* middle, alternating bits and small values
WeightSamples == {0, 1, 2, 3, 255, 65535, 5592405, 8388607, 8388608, 11184810, 16777214, 16777215}

\* well-formed original buffers: every hash is in the symbol table, every
\* reference names a record of the stream, the records end on the root tag
ValidOriginals(self) ==
    { [data |-> BStream(0, 1, <<BLeaf(self, SlotSpec.Default)>>, 1, 0), meta |-> BMetaJson(self, FALSE)],
      [data |-> BStream(0, 1, <<BLeaf(self, SlotSpec.Silent)>>, 1, 0), meta |-> BMetaJson(self, FALSE)],
      [data |-> BStream(0, 1, <<BLeaf(self, SlotSpec.Shared)>>, 1, 0), meta |-> BMetaJson(self, TRUE)],
      [data |-> BStream(0, 1, <<BLeaf(self, SlotSpec.Default),
                                BContainer(2, ZERO32, ZERO32, <<BMeta(1, 0, <<Hash.wFF>>)>>)>>, 2, 0),
       meta |-> BMetaJson(self, FALSE)],
      [data |-> BStream(0, 1, <<BLeaf(self, SlotSpec.Default),
                                BContainer(2, ZERO32, ZERO32, <<BMeta(1, 0, <<Hash.wFF>>)>>),
                                BLeaf(self, SlotSpec.Silent),
                                BContainer(3, Hash.key, Hash.dflt, <<BMeta(1, 1, <<Hash.caseA>>)>>),
                                BContainer(4, ZERO32, ZERO32, <<BMeta(2, 0, <<>>), BMeta(3, 1, <<>>)>>)>>, 4, 2),
       meta |-> BMetaJson(self, FALSE)] }
    \cup { [data |-> BStream(0, 1, <<BLeaf(self, SlotSpec.Default),
                                     BContainer(2, ZERO32, ZERO32, <<BMeta(1, 0, <<to_le_bytes32(h)>>)>>)>>, 2, 0),
            meta |-> BMetaJson(self, FALSE)] : h \in WeightSamples }

\* buffers with a metadata entry that names an index no record populated
DanglingOriginals(self) ==
    { [data |-> BStream(0, 1, <<BLeaf(self, SlotSpec.Default),
                                BContainer(2, ZERO32, ZERO32, <<BMeta(1, 5, <<Hash.wFF>>)>>)>>, 2, 0),
       meta |-> BMetaJson(self, FALSE), pool |-> "wav", parent |-> 2],
      [data |-> BStream(0, 1, <<BLeaf(self, SlotSpec.Default),
                                BContainer(3, Hash.key, Hash.dflt, <<BMeta(1, 1, <<Hash.caseA>>)>>)>>, 3, 0),
       meta |-> BMetaJson(self, FALSE), pool |-> "wav", parent |-> 3],
      [data |-> BStream(0, 1, <<BLeaf(self, SlotSpec.Default),
                                BContainer(3, Hash.key, Hash.dflt, <<BMeta(2, 0, <<Hash.caseA>>)>>)>>, 3, 0),
       meta |-> BMetaJson(self, FALSE), pool |-> "random", parent |-> 3],
      [data |-> BStream(0, 1, <<BLeaf(self, SlotSpec.Default),
                                BContainer(4, ZERO32, ZERO32, <<BMeta(1, 0, <<>>), BMeta(1, 3, <<>>)>>)>>, 4, 0),
       meta |-> BMetaJson(self, FALSE), pool |-> "wav", parent |-> 4],
      [data |-> BStream(0, 1, <<BLeaf(self, SlotSpec.Default),
                                BContainer(4, ZERO32, ZERO32, <<BMeta(1, 0, <<>>), BMeta(2, 0, <<>>)>>)>>, 4, 0),
       meta |-> BMetaJson(self, FALSE), pool |-> "global", parent |-> 4],
      [data |-> BStream(0, 1, <<BLeaf(self, SlotSpec.Default),
                                BContainer(2, ZERO32, ZERO32, <<BMeta(1, 0, <<Hash.wFF>>)>>),
                                BContainer(4, ZERO32, ZERO32, <<BMeta(2, 0, <<>>), BMeta(3, 1, <<>>)>>)>>, 4, 1),
       meta |-> BMetaJson(self, FALSE), pool |-> "global", parent |-> 4] }

\* buffers whose records do not end two bytes before the end, buffers whose
\* trailing tag names no node of its pool or no container type, buffers
\* that name a record twice, buffers that name a global index by the type
\* of another record, and buffers with a record nothing names
MalformedOriginals(self) ==
    LET leaf == BLeaf(self, SlotSpec.Default)
        random == BContainer(2, ZERO32, ZERO32, <<BMeta(1, 0, <<Hash.wFF>>)>>)
        Of(data, fault) == [data |-> data, meta |-> BMetaJson(self, FALSE), fault |-> fault]
        Cut(data) == SubSeq(data, 1, Len(data) - 1)
        switch == BContainer(3, Hash.key, Hash.dflt, <<BMeta(1, 1, <<Hash.caseA>>)>>)
        SequenceOver(entries) == BContainer(4, ZERO32, ZERO32, entries)
    IN { Of(BStream(0, 1, <<leaf, BContainer(2, ZERO32, ZERO32,
                                             <<BMeta(1, 0, <<Hash.wFF>>), BMeta(1, 0, <<Hash.wFF>>)>>)>>,
                    2, 0), "twice"),
         Of(BStream(0, 1, <<leaf, random,
                            BContainer(3, Hash.key, Hash.dflt, <<BMeta(1, 0, <<Hash.caseA>>)>>)>>,
                    3, 1), "twice"),
         Of(BStream(0, 1, <<leaf, random, SequenceOver(<<BMeta(2, 0, <<>>), BMeta(2, 0, <<>>)>>)>>, 4, 1),
            "twice"),
         Of(BStream(0, 1, <<leaf, random, leaf, switch, SequenceOver(<<BMeta(2, 1, <<>>)>>)>>, 4, 2),
            "typed"),
         Of(BStream(0, 1, <<leaf, random, leaf, switch>>, 2, 1), "typed"),
         Of(BStream(0, 1, <<leaf, leaf>>, 1, 0), "unreferenced"),
         Of(BStream(0, 1, <<leaf, random, leaf>>, 2, 0), "unreferenced"),
         Of(BStream(0, 1, <<leaf>>, 1, 0) \o <<0>>, "trailing"),
         Of(BStream(0, 1, <<leaf, random>>, 2, 0) \o <<0>>, "trailing"),
         Of(Cut(BStream(0, 1, <<leaf>>, 1, 0)), "truncated"),
         Of(SubSeq(BStream(0, 1, <<leaf>>, 1, 0), 1, 20), "short"),
         Of(BStream(0, 1, <<leaf>>, 2, 0), "root_never"),
         Of(BStream(0, 1, <<leaf>>, 1, 1), "root_never"),
         Of(BStream(0, 1, <<leaf, random>>, 1, 0), "root_moved"),
         Of(BStream(0, 1, <<leaf, random>>, 3, 0), "root_global"),
         Of(BStream(0, 1, <<leaf, random>>, 2, 5), "root_global"),
         Of(BStream(0, 1, <<leaf>>, 5, 0), "root_type"),
         Of(BStream(0, 1, <<leaf>>, 0, 0), "root_type") }

(***************************************************************************)
(* State machine: one codec instance, the calls made on it                 *)
(***************************************************************************)
VARIABLES
    args,     \* the arguments the instance was constructed with
    ctor,     \* outcome of DLGE::new
    dlge,     \* the DLGE instance
    call,     \* the last call: operation, provenance and inputs
    res,      \* the result of the last call
    writer,   \* a ByteWriter: its buffer, and what was appended to it
    reader,   \* a ByteReader over the buffer of the writer
    enc       \* the encoder inside the child loop of a Sequence

vars == <<args, ctor, dlge, call, res, writer, reader, enc>>

NoDoc == [hash |-> <<>>, ditl |-> <<>>, clng |-> <<>>, langmap |-> None, root |-> NullContainer]
NoCall == [op |-> "none", src |-> "none", json |-> NoDoc, data |-> <<>>, meta |-> NoMeta, dangling |-> ""]
NoRes == [k |-> "none", v |-> 0, file |-> <<>>, meta |-> NoMeta, json |-> NoDoc]

\* no writer, no reader
NoWriter == [buf |-> <<>>, endianness |-> "Little", log |-> <<>>, marks |-> <<>>, last |-> 0]
NoReader == [pos |-> 0, values |-> <<>>, k |-> "Ok"]

\* no child loop: the indices and the dependency list as rebuild sets them
\* up, no child written (n), no tag (first, last, root)
NoEncoder ==
    [child |-> NullContainer,
     indices |-> [global |-> -1, wav |-> -1, random |-> -1, switch |-> -1, sequence |-> -1],
     depends |-> indexmap_insert(indexmap_insert(<<>>, Text.ditl, <<49, 70>>), Text.clng, <<49, 70>>),
     n |-> 0, first |-> None, last |-> None, root |-> None, err |-> OkRes]

Init ==
    /\ args \in CtorArgs
    /\ LET r == DLGE_new(args.version, args.lang_map, args.default_locale, args.hex_precision)
       IN ctor = r.k /\ dlge = r.self
    /\ call = NoCall
    /\ res = NoRes
    /\ writer = NoWriter
    /\ reader = NoReader
    /\ enc = NoEncoder

\* the instance can take a call: it was constructed and has not aborted
Alive == ctor = "Ok" /\ res.k # "Panic"

DoRebuild(json, src, data) ==
    LET Returned(r) ==
            /\ dlge' = r.self
            /\ call' = [op |-> "rebuild", src |-> src, json |-> json, data |-> data, meta |-> NoMeta,
                        dangling |-> ""]
            /\ res' = [k |-> r.res.k, v |-> r.res.v, file |-> r.res.file, meta |-> r.res.meta,
                       json |-> NoDoc]
            /\ UNCHANGED <<args, ctor, writer, reader, enc>>
    IN Returned(rebuild(dlge, json))

DoConvert(data, meta, src, json, dangling) ==
    LET Returned(r) ==
            /\ call' = [op |-> "convert", src |-> src, json |-> json, data |-> data, meta |-> meta,
                        dangling |-> dangling]
            /\ res' = [k |-> r.k, v |-> r.v, file |-> <<>>, meta |-> NoMeta,
                       json |-> IF r.k = "Ok" THEN r.json ELSE NoDoc]
            /\ UNCHANGED <<args, ctor, dlge, writer, reader, enc>>
    IN Returned(convert(dlge, data, meta))

\* rebuild of a document of the caller
Rebuild(json) == Alive /\ DoRebuild(json, "caller", <<>>)

\* convert of the bytes and dependency list the last rebuild returned
ConvertRebuilt ==
    /\ Alive /\ call.op = "rebuild" /\ call.src = "caller" /\ res.k = "Ok"
    /\ DoConvert(res.file, res.meta, "rebuilt", call.json, "")

\* convert of an original buffer
ConvertOriginal(b) == Alive /\ DoConvert(b.data, b.meta, "original", NoDoc, "")

\* convert of a buffer with a dangling reference
ConvertDangling(b) == Alive /\ DoConvert(b.data, b.meta, "dangling", NoDoc, b.pool)

\* convert of a malformed buffer
ConvertMalformed(b) == Alive /\ DoConvert(b.data, b.meta, "malformed", NoDoc, b.fault)

\* rebuild of the document the last convert returned
RebuildConverted ==
    /\ Alive /\ call.op = "convert" /\ call.src = "original" /\ res.k = "Ok"
    /\ DoRebuild(res.json, "converted", call.data)

Next ==
    \/ \E json \in Docs : Rebuild(json)
    \/ ConvertRebuilt
    \/ \E b \in ValidOriginals(dlge) : ConvertOriginal(b)
    \/ \E b \in DanglingOriginals(dlge) : ConvertDangling(b)
    \/ \E b \in MalformedOriginals(dlge) : ConvertMalformed(b)
    \/ RebuildConverted

Spec == Init /\ [][Next]_vars

(***************************************************************************)
(* The child loop of a root Sequence, one child at a step: the indices,    *)
(* the dependency list and the tags written are kept, the bytes are not.   *)
(***************************************************************************)
EmitInit ==
    /\ args \in {a \in CtorArgs : a.version = "H2016"}
    /\ LET r == DLGE_new(args.version, args.lang_map, args.default_locale, args.hex_precision)
       IN ctor = r.k /\ dlge = r.self
    /\ call = NoCall /\ res = NoRes /\ writer = NoWriter /\ reader = NoReader
    /\ enc \in {[NoEncoder EXCEPT !.child = c] : c \in {Leaf.Silent, RandomOf(<<>>)}}

\* one turn of `for child in sequence.containers.clone()`
EmitChild ==
    /\ enc.n < MaxNodes /\ ~IsSome(enc.root) /\ enc.err.k = "Ok"
    /\ LET r == SequenceChildren(dlge, [buf |-> <<>>, depends |-> enc.depends,
                                        indices |-> enc.indices, err |-> OkRes],
                                 <<enc.child>>, <<>>)
           Pushed(tag) == [enc EXCEPT !.indices = r.st.indices, !.depends = r.st.depends,
                                      !.n = @ + 1, !.last = tag,
                                      !.first = IF enc.n = 0 THEN tag ELSE @]
       IN enc' = IF IsOk(r.st) THEN Pushed(Some(r.metadata[1].type_index))
                 ELSE [enc EXCEPT !.err = r.st.err]
    /\ UNCHANGED <<args, ctor, dlge, call, res, writer, reader>>

\* after the loop: the counters advance and the root tag is written
EmitRoot ==
    /\ ~IsSome(enc.root) /\ enc.err.k = "Ok"
    /\ enc' = [enc EXCEPT !.indices.global = @ + 1,
                          !.indices.sequence = @ + 1,
                          !.root = Some(RootTag(SequenceOf(<<>>),
                                                [enc.indices EXCEPT !.global = @ + 1]))]
    /\ UNCHANGED <<args, ctor, dlge, call, res, writer, reader>>

EmitNext == EmitChild \/ EmitRoot

EmitSpec == EmitInit /\ [][EmitNext]_vars

(***************************************************************************)
(* ByteWriter and ByteReader (util): values appended to a writer, read     *)
(* back by a reader over its buffer.  A value is [type, value]; a String   *)
(* is its sequence of bytes.                                               *)
(***************************************************************************)
\* ToBytes::to_bytes: the bytes of a value in an endianness.  An i32 is in
\* two's complement, a String its bytes closed by a zero byte.
to_bytes(v, endianness) ==
    LET twos == IF v.value >= 0 THEN to_le_bytes32(v.value)
                ELSE [to_le_bytes32(v.value + 2147483647 + 1) EXCEPT ![4] = @ + 128]
        le == CASE v.type = "u16" -> to_le_bytes16(v.value)
                [] v.type = "i32" -> twos
                [] OTHER -> v.value \o <<0>>
    IN IF endianness = "Big" /\ v.type # "String"
       THEN [i \in 1..Len(le) |-> le[Len(le) + 1 - i]]
       ELSE le

\* the read as it would be if the bytes were always taken as little-endian
ReaderRead_little(data, pos, type, endianness) ==
    LET n == IF type = "u16" THEN 2 ELSE 4
        zeros == {i \in (pos + 1)..Len(data) : data[i] = 0}
        stop == CHOOSE i \in zeros : \A j \in zeros : i <= j
        le == BytesAt(data, pos, n)
        unsigned == le[1] + 256 * le[2]
        signed == IF le[4] >= 128
                  THEN (le[1] + 256 * le[2] + 65536 * le[3] + 16777216 * (le[4] - 128)) - 2147483647 - 1
                  ELSE le[1] + 256 * le[2] + 65536 * le[3] + 16777216 * le[4]
    IN IF type = "String"
       THEN (IF zeros = {} THEN [k |-> "Panic", pos |-> Len(data), value |-> <<>>]
             ELSE [k |-> "Ok", pos |-> stop, value |-> SubSeq(data, pos + 1, stop - 1)])
       ELSE IF Remaining(data, pos) < n THEN [k |-> "Panic", pos |-> Len(data), value |-> 0]
       ELSE [k |-> "Ok", pos |-> pos + n, value |-> IF type = "u16" THEN unsigned ELSE signed]

\* ByteReader::read::<T> (read_cstr for a String): size_of::<T>() bytes taken
\* one by one and put together by from_le_bytes or from_be_bytes; a String
\* is read up to its zero byte.  read_byte consumes a byte even when none is
\* left, which aborts.  The result is [k, pos, value].
ReaderRead(data, pos, type, endianness) ==
    LET n == IF type = "u16" THEN 2 ELSE 4
        zeros == {i \in (pos + 1)..Len(data) : data[i] = 0}
        stop == CHOOSE i \in zeros : \A j \in zeros : i <= j
        raw == BytesAt(data, pos, n)
        le == IF endianness = "Little" THEN raw ELSE [i \in 1..n |-> raw[n + 1 - i]]
        unsigned == le[1] + 256 * le[2]
        signed == IF le[4] >= 128
                  THEN (le[1] + 256 * le[2] + 65536 * le[3] + 16777216 * (le[4] - 128)) - 2147483647 - 1
                  ELSE le[1] + 256 * le[2] + 65536 * le[3] + 16777216 * le[4]
    IN IF type = "String"
       THEN (IF zeros = {} THEN [k |-> "Panic", pos |-> Len(data), value |-> <<>>]
             ELSE [k |-> "Ok", pos |-> stop, value |-> SubSeq(data, pos + 1, stop - 1)])
       ELSE IF Remaining(data, pos) < n THEN [k |-> "Panic", pos |-> Len(data), value |-> 0]
       ELSE [k |-> "Ok", pos |-> pos + n, value |-> IF type = "u16" THEN unsigned ELSE signed]

\* the values appended: those of test_bytewriter, the ends of the ranges,
\* values whose bytes differ, the empty string
CursorValues ==
    {[type |-> "u16", value |-> n] : n \in {10, 258, 65535}}
    \cup {[type |-> "i32", value |-> n] : n \in {-14, -1, 16909060}}
    \cup {[type |-> "String", value |-> b] : b \in {<<116, 101, 115, 116, 105, 110, 103>>, <<>>, <<97>>}}

CursorInit ==
    /\ args \in {a \in CtorArgs : a.version = "H3" /\ ~IsSome(a.lang_map)}
    /\ ctor = "none" /\ dlge = NoInstance /\ call = NoCall /\ res = NoRes
    /\ writer \in {[NoWriter EXCEPT !.endianness = e] : e \in {"Little", "Big"}}
    /\ reader = NoReader
    /\ enc = NoEncoder

\* ByteWriter::append, before a reader is made over the buffer.  The length
\* returned is taken from the vector Vec::append has emptied.
WriterAppend(v) ==
    /\ reader.values = <<>> /\ Len(writer.log) < MaxAppends
    /\ writer' = [writer EXCEPT !.buf = @ \o to_bytes(v, writer.endianness),
                                !.log = Append(@, v),
                                !.marks = Append(@, Len(writer.buf) + Len(to_bytes(v, writer.endianness))),
                                !.last = 0]
    /\ UNCHANGED <<args, ctor, dlge, call, res, reader, enc>>

\* the next value read back, of the type that was appended at its place
ReaderTake ==
    /\ reader.k = "Ok" /\ Len(reader.values) < Len(writer.log)
    /\ LET r == ReaderRead(writer.buf, reader.pos, writer.log[Len(reader.values) + 1].type,
                           writer.endianness)
       IN reader' = [pos |-> r.pos, k |-> r.k,
                     values |-> IF r.k = "Ok"
                                THEN Append(reader.values,
                                            [type |-> writer.log[Len(reader.values) + 1].type,
                                             value |-> r.value])
                                ELSE reader.values]
    /\ UNCHANGED <<args, ctor, dlge, call, res, writer, enc>>

CursorNext == (\E v \in CursorValues : WriterAppend(v)) \/ ReaderTake

CursorSpec == CursorInit /\ [][CursorNext]_vars

(***************************************************************************)
(* Documents that obey the data model (spec section 3) for an instance     *)
(***************************************************************************)
RECURSIVE CountType(_, _)
RECURSIVE CountTypeAll(_, _)
\* number of nodes of a type in a tree
CountType(node, type) ==
    (IF node.type = type THEN 1 ELSE 0)
    + (IF node.type \in {"Random", "Switch", "Sequence"} THEN CountTypeAll(node.containers, type) ELSE 0)
CountTypeAll(nodes, type) ==
    IF nodes = <<>> THEN 0 ELSE CountType(Head(nodes), type) + CountTypeAll(Tail(nodes), type)

RECURSIVE LeavesOf(_)
RECURSIVE LeavesOfAll(_)
\* the WavFile nodes of a tree, in document order
LeavesOf(node) ==
    IF node.type = "WavFile" THEN <<node>>
    ELSE IF node.type \in {"Random", "Switch", "Sequence"} THEN LeavesOfAll(node.containers)
    ELSE <<>>
LeavesOfAll(nodes) == IF nodes = <<>> THEN <<>> ELSE LeavesOf(Head(nodes)) \o LeavesOfAll(Tail(nodes))

KnownSwitchSymbol(sym) == \E e \in HashListSwitches : e.name = sym
KnownTag(sym) == \E e \in HashListTags : e.name = sym

\* a subtitle the cipher returns unchanged: not empty, no NUL at either end
PlainText(str) == str # <<>> /\ Head(str) # 0 /\ str[Len(str)] # 0

ValidEntry(e) ==
    \/ e.kind = "str" /\ PlainText(e.str)
    \/ e.kind = "obj" /\ (IsSome(e.subtitle) => PlainText(Unwrap(e.subtitle)))

ValidWeight(self, w) ==
    IF self.hex_precision
    THEN w.kind = "str" /\ IsSome(from_str_radix16(w.str))
         /\ FormatHex6(Unwrap(from_str_radix16(w.str))) = w.str
    ELSE w.kind = "f64" /\ w.den = 16777215 /\ w.num >= 0 /\ w.num <= 16777215

ValidWav(self, w) ==
    /\ KnownTag(w.soundtag)
    /\ DOMAIN w.languages \subseteq Range(self.lang_map)
    /\ \A l \in DOMAIN w.languages : ValidEntry(w.languages[l])
    /\ IsSome(w.default_wav) = IsSome(w.default_ffx)
    /\ IF IsSome(w.default_wav)
       THEN /\ self.default_locale \in Range(self.lang_map)
            /\ self.default_locale \in DOMAIN w.languages => w.languages[self.default_locale].kind = "str"
            /\ w.wav_name = get_wav_name(Unwrap(w.default_wav), Unwrap(w.default_ffx), NameHash(w.wav_name))
       ELSE /\ w.wav_name = FormatHex8(NameHash(w.wav_name))
            /\ \A l \in DOMAIN w.languages : w.languages[l].kind = "str"

RECURSIVE WellFormedNode(_, _)
\* the tree rules of the data model; parent is "root", "Random", "Switch"
\* or "Sequence"
WellFormedNode(node, parent) ==
    LET kids == node.containers
        annotated ==
            /\ (parent = "Switch") = IsSome(node.cases)
            /\ IsSome(node.cases) =>
                 Unwrap(node.cases) # <<>> /\ \A i \in 1..Len(Unwrap(node.cases)) : KnownSwitchSymbol(Unwrap(node.cases)[i])
    IN CASE node.type = "WavFile" ->
              /\ annotated
              /\ (parent = "Random") = IsSome(node.weight)
              /\ IsSome(node.weight) =>
                    LET w == Unwrap(node.weight)
                    IN w.kind = "f64" \/ (w.kind = "str" /\ IsSome(from_str_radix16(w.str)))
              /\ KnownTag(node.soundtag)
              /\ \A l \in DOMAIN node.languages : node.languages[l].kind \in {"str", "obj"}
         [] node.type = "Random" ->
              /\ annotated
              /\ parent # "Random"
              /\ \A i \in 1..Len(kids) : kids[i].type = "WavFile" /\ WellFormedNode(kids[i], "Random")
         [] node.type = "Switch" ->
              /\ parent \in {"root", "Sequence"}
              /\ KnownSwitchSymbol(node.switch_key) /\ KnownSwitchSymbol(node.default)
              /\ \A i \in 1..Len(kids) : kids[i].type \in {"WavFile", "Random"} /\ WellFormedNode(kids[i], "Switch")
         [] node.type = "Sequence" ->
              /\ parent = "root"
              /\ \A i \in 1..Len(kids) : kids[i].type \in {"WavFile", "Random", "Switch"}
                                         /\ WellFormedNode(kids[i], "Sequence")
         [] OTHER -> FALSE

\* a well-formed tree whose leaves are in the form this instance decodes to
ValidNode(self, node, parent) ==
    /\ WellFormedNode(node, parent)
    /\ LET ls == LeavesOf(node)
       IN \A i \in 1..Len(ls) :
            /\ ValidWav(self, ls[i])
            /\ IsSome(ls[i].weight) => ValidWeight(self, Unwrap(ls[i].weight))

\* the langmap a document of this instance carries: the echo of a custom map
LangmapEcho(self) == IF self.custom_langmap THEN Some(join_comma(self.lang_map)) ELSE None

ValidDoc(self, json) ==
    /\ ValidNode(self, json.root, "root")
    /\ CountType(json.root, "Switch") <= 1
    /\ CountType(json.root, "Sequence") <= 1
    /\ json.langmap = LangmapEcho(self)
    /\ json.ditl # json.clng

\* equality of documents on the fields a round trip has to keep
SameDocument(a, b) == a.root = b.root /\ a.ditl = b.ditl /\ a.clng = b.clng /\ a.langmap = b.langmap

(***************************************************************************)
(* Properties                                                              *)
(***************************************************************************)
\* the instance DLGE::new returns for the arguments of this behaviour
Fresh == DLGE_new(args.version, args.lang_map, args.default_locale, args.hex_precision).self

\* the language list a rebuild of json that returned Ok worked with
UsedLangMap(json) == IF IsSome(json.langmap) THEN split_comma(Unwrap(json.langmap)) ELSE dlge.lang_map

Rebuilt == call.op = "rebuild"
Converted == call.op = "convert"

\* C1 -- Round trip: a valid document, rebuilt and then decoded by the same
\* instance, comes back equal (root tree, DITL, CLNG, langmap).
C1_RoundTrip ==
    /\ (Rebuilt /\ call.src = "caller" /\ ValidDoc(dlge, call.json)) => res.k = "Ok"
    /\ (Converted /\ call.src = "rebuilt" /\ ValidDoc(dlge, call.json))
          => (res.k = "Ok" /\ SameDocument(res.json, call.json))

\* C2 -- Byte idempotence: a well-formed original buffer, decoded and then
\* rebuilt, gives back the same bytes.
C2_ByteIdempotence ==
    (Rebuilt /\ call.src = "converted") => (res.k = "Ok" /\ res.file = call.data)

\* C3 -- Scoped override: a rebuild of a document with a langmap override
\* that returns (success or error) leaves the instance's language map as it
\* was before the call.
C3_LangMapRestored ==
    [][(call'.op = "rebuild" /\ IsSome(call'.json.langmap) /\ res'.k # "Panic")
          => dlge'.lang_map = dlge.lang_map]_vars

\* every leaf can be written: its tag is known and its weight, if any, is a
\* number or a hex string
EncodableLeaves(root) ==
    LET ls == LeavesOf(root)
    IN \A i \in 1..Len(ls) :
         /\ KnownTag(ls[i].soundtag)
         /\ IsSome(ls[i].weight) =>
              LET w == Unwrap(ls[i].weight)
              IN w.kind = "f64" \/ (w.kind = "str" /\ IsSome(from_str_radix16(w.str)))

\* C4 -- Singleton enforcement: two Switch nodes or two Sequence nodes
\* anywhere in the tree make rebuild fail with an invalid-container or
\* invalid-reference error; a well-formed tree with at most one of each is
\* encoded, whatever the number of children of the Switch or Sequence.
C4_Singleton ==
    (Rebuilt /\ call.src = "caller") =>
       LET root == call.json.root
           twice == CountType(root, "Switch") >= 2 \/ CountType(root, "Sequence") >= 2
       IN /\ (twice /\ EncodableLeaves(root)) => res.k \in {"InvalidContainer", "InvalidReference"}
          /\ (~twice /\ WellFormedNode(root, "root")) => res.k = "Ok"

\* a Sequence of two Switch nodes, the first without children, is refused at
\* the second Switch
C4_Witness ==
    /\ Rebuilt /\ call.src = "caller"
    /\ CountType(call.json.root, "Switch") = 2
    /\ call.json.root.type = "Sequence"
    /\ Len(call.json.root.containers[1].containers) = 0
    /\ res.k = "InvalidContainer" /\ res.v = 3

\* C5 -- Reference integrity: a metadata entry naming an index that no
\* record populated makes convert fail with an invalid-reference error.
C5_DanglingReference ==
    (Converted /\ call.src = "dangling") => res.k = "InvalidReference"

\* C6 -- Tag-symbol fallback: a WavFile whose soundtag is not in the symbol
\* table is written with a content hash of the symbol, and rebuild returns.
C6_TagFallback ==
    (Rebuilt /\ call.src = "caller" /\ call.json.root.type = "WavFile"
       /\ ~KnownTag(call.json.root.soundtag))
      => (res.k = "Ok" /\ SubSeq(res.file, 10, 13) = NameHash(call.json.root.soundtag))

\* length of a cipher payload for a text
PayloadLen(str) == 8 * ((Len(str) + 7) \div 8)

\* C7 -- Default-locale subtitle slot: for a root WavFile with default
\* references whose only entry is a string for the default locale, every
\* language slot holds the reserved field (H2016), two indices and exactly
\* one payload field, so the stream has the length the layout gives it.
C7_DefaultSlot ==
    LET wav == call.json.root
        map == UsedLangMap(call.json)
        text == IF Fresh.default_locale \in DOMAIN wav.languages
                THEN wav.languages[Fresh.default_locale].str ELSE <<>>
        slot(l) == (IF Fresh.version = "H2016" THEN 4 ELSE 0) + 8 + 4
                   + (IF l = Fresh.default_locale THEN PayloadLen(text) ELSE 0)
        slots == [i \in 1..Len(map) |-> slot(map[i])]
        Sum[i \in 0..Len(map)] == IF i = 0 THEN 0 ELSE Sum[i - 1] + slots[i]
    IN (Rebuilt /\ call.src = "caller" /\ res.k = "Ok" /\ wav.type = "WavFile"
          /\ IsSome(wav.default_wav) /\ IsSome(wav.default_ffx)
          /\ DOMAIN wav.languages \subseteq {Fresh.default_locale}
          /\ (\A l \in DOMAIN wav.languages : wav.languages[l].kind = "str"))
       => Len(res.file) = 8 + (IF Fresh.version = "H2016" THEN 9 ELSE 13) + Sum[Len(map)] + 2

\* C8 -- Leading dependencies: after a successful rebuild the dependency
\* list holds DITL at position 0 and CLNG at position 1, both with flag 1F,
\* and the stream starts with the constants 0 and 1.
C8_LeadingDependencies ==
    (Rebuilt /\ res.k = "Ok") =>
       LET deps == res.meta.hash_reference_data
       IN /\ Len(deps) >= 2
          /\ deps[1] = [hash |-> call.json.ditl, flag |-> <<49, 70>>]
          /\ deps[2] = [hash |-> call.json.clng, flag |-> <<49, 70>>]
          /\ SubSeq(res.file, 1, 8) = to_le_bytes32(0) \o to_le_bytes32(1)

\* C9 -- Resolver reset: whatever calls came before, a rebuild returns the
\* dependency list and the stream a fresh instance returns for the document.
C9_ResolverReset ==
    (Rebuilt /\ res.k # "Panic") =>
       LET fresh == rebuild(Fresh, call.json).res
       IN res.k = fresh.k /\ res.file = fresh.file
          /\ res.meta.hash_reference_data = fresh.meta.hash_reference_data

\* the reference strings a document holds
DocumentRefs(json) ==
    LET ls == LeavesOf(json.root)
        leafRefs(w) == (IF IsSome(w.default_wav) THEN {Unwrap(w.default_wav)} ELSE {})
                       \cup (IF IsSome(w.default_ffx) THEN {Unwrap(w.default_ffx)} ELSE {})
                       \cup UNION {IF w.languages[l].kind = "obj"
                                   THEN {w.languages[l].wav, w.languages[l].ffx} ELSE {} : l \in DOMAIN w.languages}
    IN {json.ditl, json.clng} \cup UNION {leafRefs(ls[i]) : i \in 1..Len(ls)}

\* C10 -- Override-object dependencies: the identities a successful rebuild
\* registers are reference strings of the document, so a string used as a
\* default reference and in an override object has one entry.
C10_OverrideDependencies ==
    (Rebuilt /\ res.k = "Ok") =>
       LET deps == res.meta.hash_reference_data
       IN \A i \in 1..Len(deps) : deps[i].hash \in DocumentRefs(call.json)

\* a child type the data model forbids under a parent type
ForbiddenFor(parent, child) ==
    CASE parent = "Random" -> child # "WavFile"
      [] parent = "Switch" -> child \in {"Switch", "Sequence", "Null"}
      [] parent = "Sequence" -> child \in {"Sequence", "Null"}
      [] OTHER -> FALSE

RECURSIVE ForbiddenIn(_)
\* some container of the tree has a child of a forbidden type
ForbiddenIn(node) ==
    /\ node.type \in {"Random", "Switch", "Sequence"}
    /\ \E i \in 1..Len(node.containers) :
          ForbiddenFor(node.type, node.containers[i].type) \/ ForbiddenIn(node.containers[i])

\* C11 -- Forbidden child types: a tree in which a Random has a child that
\* is not a WavFile, a Switch has a Switch, Sequence or Null child, or a
\* Sequence has a Sequence or Null child (at any position) makes rebuild fail
\* with an invalid-reference or invalid-container error.
C11_ForbiddenChild ==
    (Rebuilt /\ call.src = "caller" /\ ForbiddenIn(call.json.root) /\ EncodableLeaves(call.json.root))
       => res.k \in {"InvalidReference", "InvalidContainer"}

\* a Sequence whose first child is a Sequence: the child passes the
\* singleton guard, is written, and is refused by the parent afterwards
C11_Witness ==
    /\ Rebuilt /\ call.src = "caller"
    /\ call.json.root.type = "Sequence"
    /\ Len(call.json.root.containers) >= 1
    /\ call.json.root.containers[1].type = "Sequence"
    /\ res.k = "InvalidReference" /\ res.v = 21

\* a child of a Random without weight, a WavFile or Random child of a Switch
\* without case labels
Unannotated(parent, child) ==
    \/ parent = "Random" /\ child.type = "WavFile" /\ ~IsSome(child.weight)
    \/ parent = "Switch" /\ child.type \in {"WavFile", "Random"} /\ ~IsSome(child.cases)

RECURSIVE UnannotatedIn(_)
UnannotatedIn(node) ==
    /\ node.type \in {"Random", "Switch", "Sequence"}
    /\ \E i \in 1..Len(node.containers) :
          Unannotated(node.type, node.containers[i]) \/ UnannotatedIn(node.containers[i])

\* a writer that holds nothing yet
EmptyWriter ==
    [buf |-> <<>>, depends |-> <<>>,
     indices |-> [global |-> -1, wav |-> -1, random |-> -1, switch |-> -1, sequence |-> -1],
     err |-> OkRes]

\* what the children before position i of a Random or Switch leave in an
\* empty writer
WrittenBefore(self, node, i) ==
    IF node.type = "Random"
    THEN RandomChildren(self, EmptyWriter, SubSeq(node.containers, 1, i - 1), <<>>).st.buf
    ELSE SwitchChildren(self, EmptyWriter, SubSeq(node.containers, 1, i - 1), <<>>).st.buf

\* C12 -- Missing annotations: a child of a Random without weight, or a
\* WavFile or Random child of a Switch without case labels, makes rebuild
\* fail with an invalid-reference error, and the writer holds at that point
\* the children before it and no byte of the child itself.
C12_MissingAnnotation ==
    LET root == call.json.root
        bad == {i \in 1..Len(root.containers) : Unannotated(root.type, root.containers[i])}
        first == CHOOSE i \in bad : \A k \in bad : i <= k
    IN /\ (Rebuilt /\ call.src = "caller" /\ UnannotatedIn(root) /\ EncodableLeaves(root)
           /\ ~ForbiddenIn(root) /\ CountType(root, "Switch") <= 1 /\ CountType(root, "Sequence") <= 1)
          => res.k = "InvalidReference"
       /\ (Rebuilt /\ call.src = "caller" /\ root.type \in {"Random", "Switch"} /\ EncodableLeaves(root)
           /\ ~ForbiddenIn(root) /\ bad # {})
          => process_container(dlge, EmptyWriter, root, FALSE).buf = WrittenBefore(dlge, root, first)

\* a Random whose second child has no weight: refused with the first child
\* written and nothing of the second
C12_Witness ==
    /\ Rebuilt /\ call.src = "caller"
    /\ call.json.root.type = "Random"
    /\ Len(call.json.root.containers) = 2
    /\ \A i \in 1..2 : call.json.root.containers[i].type = "WavFile"
    /\ IsSome(call.json.root.containers[1].weight)
    /\ ~IsSome(call.json.root.containers[2].weight)
    /\ res.k = "InvalidReference" /\ res.v = 1
    /\ process_container(dlge, EmptyWriter, call.json.root, FALSE).buf # <<>>

\* C13 -- Non-empty case labels: a Switch with a WavFile or Random child
\* whose case-label list is present but empty is refused by rebuild with a
\* structural error.
C13_EmptyCases ==
    LET root == call.json.root
    IN (Rebuilt /\ call.src = "caller" /\ root.type = "Switch"
          /\ \E i \in 1..Len(root.containers) :
                /\ root.containers[i].type \in {"WavFile", "Random"}
                /\ root.containers[i].cases = Some(<<>>))
       => res.k \in {"InvalidReference", "InvalidContainer"}

\* C14: a buffer whose records do not end exactly two bytes before its end
\* (more than two bytes, or fewer, are left after the last record) is refused
\* with the did-not-reach-end-of-file error.
C14_EndOfStream ==
    (Converted /\ call.src = "malformed" /\ call.dangling \in {"trailing", "truncated"})
       => res.k = "DidNotReachEOF"

\* C15: a trailing root tag that names a node which is not in its pool (never
\* created, already moved into a parent, or under a global index that was
\* never assigned to that pool) or a type outside 1..4 is refused with a
\* typed structural error; convert does not abort.
C15_RootResolution ==
    (Converted /\ call.src = "malformed"
       /\ call.dangling \in {"root_never", "root_moved", "root_global", "root_type"})
       => res.k \in {"InvalidReference", "InvalidContainer"}

\* C16: constructing the codec for a version other than H2016, H2 and H3
\* fails with the unsupported-version error, with or without a custom
\* language map.
C16_UnsupportedVersion ==
    args.version \notin {"H2016", "H2", "H3"} => ctor = "UnsupportedVersion"

\* the language map a rebuild of json runs with
MapOf(self, json) == IF IsSome(json.langmap) THEN split_comma(Unwrap(json.langmap)) ELSE self.lang_map

\* position of the reference pair of slot i of a WavFile record whose first
\* slot starts at pos
RECURSIVE SlotStart(_, _, _, _)
SlotStart(self, data, pos, i) ==
    LET p == pos + (IF self.version = "H2016" THEN 4 ELSE 0)
    IN IF i = 1 THEN p
       ELSE SlotStart(self, data, p + 12 + Val32(BytesAt(data, p + 8, 4)), i - 1)

\* first slot of the record at the head of the stream
FirstSlot(self) == 8 + 9 + (IF self.version # "H2016" THEN 4 ELSE 0)

\* the slot holds the all-ones pair and a zero payload length
SentinelSlot(data, p) == BytesAt(data, p, 12) = U64_MAX \o ZERO32

\* the bytes of the record of leaf wav once its first n languages are written
WavThrough(self, json, n) ==
    ProcessWavFile([self EXCEPT !.lang_map = SubSeq(MapOf(self, json), 1, n)], EmptyWriter, json.root).buf

\* the bytes the encoder wrote for language i of the root leaf
SlotWritten(self, json, file, i) ==
    SubSeq(file, 8 + Len(WavThrough(self, json, i - 1)) + 1, 8 + Len(WavThrough(self, json, i)))

\* C17: for a WavFile without an entry for a language other than the default
\* locale the encoder writes the all-ones 64-bit pair and a 4-byte zero
\* length in the slot of that language, and the decoder, reading such a slot,
\* adds no entry for the language.
C17_Sentinel ==
    /\ (Rebuilt /\ res.k = "Ok" /\ call.json.root.type = "WavFile")
          => \A i \in 1..Len(MapOf(dlge, call.json)) :
                (/\ MapOf(dlge, call.json)[i] # dlge.default_locale
                 /\ MapOf(dlge, call.json)[i] \notin DOMAIN call.json.root.languages)
                   => SlotWritten(dlge, call.json, res.file, i)
                        = (IF dlge.version = "H2016" THEN ZERO32 ELSE <<>>) \o U64_MAX \o ZERO32
    /\ (Converted /\ call.src \in {"rebuilt", "original"} /\ res.k = "Ok" /\ res.json.root.type = "WavFile")
          => \A i \in 1..Len(dlge.lang_map) :
                (/\ dlge.lang_map[i] # dlge.default_locale
                 /\ SentinelSlot(call.data, SlotStart(dlge, call.data, FirstSlot(dlge), i)))
                   => dlge.lang_map[i] \notin DOMAIN res.json.root.languages

\* a leaf without an fr entry was rebuilt with the sentinel in the fr slot
\* and converted back without an fr entry
C17_Witness ==
    /\ Converted /\ call.src = "rebuilt" /\ res.k = "Ok"
    /\ call.json.root.type = "WavFile" /\ res.json.root.type = "WavFile"
    /\ call.json.langmap = None
    /\ \E i \in 1..Len(dlge.lang_map) :
          /\ dlge.lang_map[i] # dlge.default_locale
          /\ dlge.lang_map[i] \notin DOMAIN call.json.root.languages
          /\ SentinelSlot(call.data, SlotStart(dlge, call.data, FirstSlot(dlge), i))
          /\ dlge.lang_map[i] \notin DOMAIN res.json.root.languages
    /\ \E l \in DOMAIN res.json.root.languages : l # dlge.default_locale

\* positions of the default locale in the language map of the instance
DefaultSlots(self) == {i \in 1..Len(self.lang_map) : self.lang_map[i] = self.default_locale}

\* the default-locale slot at p holds two references and a zero payload length
SilentDefault(data, p) ==
    /\ BytesAt(data, p, 4) # U32_MAX
    /\ BytesAt(data, p + 4, 4) # U32_MAX
    /\ BytesAt(data, p + 8, 4) = ZERO32

\* C18: when the default-locale slot of a WavFile record holds an audio and
\* an effects reference (neither the all-ones sentinel) and a zero payload
\* length, convert sets defaultWav and defaultFfx from the dependency list
\* and adds no languages entry for the default locale.
C18_DefaultLocale ==
    (Converted /\ call.src \in {"rebuilt", "original"} /\ res.k = "Ok" /\ res.json.root.type = "WavFile")
       => \A i \in DefaultSlots(dlge) :
             LET p == SlotStart(dlge, call.data, FirstSlot(dlge), i)
                 deps == call.meta.hash_reference_data
             IN SilentDefault(call.data, p)
                  => /\ res.json.root.default_wav = Some(deps[Val32(BytesAt(call.data, p, 4)) + 1].hash)
                     /\ res.json.root.default_ffx = Some(deps[Val32(BytesAt(call.data, p + 4, 4)) + 1].hash)
                     /\ dlge.default_locale \notin DOMAIN res.json.root.languages

\* an original leaf with a silent default slot was converted
C18_Witness ==
    /\ Converted /\ call.src = "original" /\ res.k = "Ok" /\ res.json.root.type = "WavFile"
    /\ \E i \in DefaultSlots(dlge) :
          /\ SilentDefault(call.data, SlotStart(dlge, call.data, FirstSlot(dlge), i))
          /\ res.json.root.default_wav = Some(Text.wav1)
          /\ res.json.root.default_ffx = Some(Text.ffx1)
    /\ dlge.default_locale \notin DOMAIN res.json.root.languages

\* a Sequence of one Random followed by one Switch
RandomThenSwitch(node) ==
    /\ node.type = "Sequence" /\ Len(node.containers) = 2
    /\ node.containers[1].type = "Random" /\ node.containers[2].type = "Switch"

\* the two metadata entries that close the last record of a stream, before
\* the root tag
LastEntries(data) == SubSeq(data, Len(data) - 13, Len(data) - 2)

\* entry 0x2000 (Random, global 0) and entry 0x3001 (Switch, global 1), each
\* with an empty hash list
GlobalEntries == <<0, 32, 0, 0, 0, 0, 1, 48, 0, 0, 0, 0>>

\* the types of a tree, the soundtags at its leaves and the keys of its switches
RECURSIVE Shape(_)
Shape(node) ==
    CASE node.type = "WavFile" -> <<node.type, node.soundtag>>
      [] node.type = "Switch" -> <<node.type, node.switch_key, [k \in DOMAIN node.containers |-> Shape(node.containers[k])]>>
      [] node.type \in {"Random", "Sequence"} -> <<node.type, [k \in DOMAIN node.containers |-> Shape(node.containers[k])]>>
      [] OTHER -> <<node.type>>

\* C19: for a Sequence of one Random followed by one Switch the encoder
\* writes Sequence metadata entries naming the Random by global index 0 and
\* the Switch by global index 1 (not by their local indices 0 and 0), and the
\* decoder resolves both entries through the global-to-local table to that
\* Random and that Switch.
C19_GlobalIndex ==
    /\ (Rebuilt /\ res.k = "Ok" /\ RandomThenSwitch(call.json.root))
          => LastEntries(res.file) = GlobalEntries
    /\ (Converted /\ call.src = "rebuilt" /\ RandomThenSwitch(call.json.root)
           /\ MapOf(dlge, call.json) = dlge.lang_map)
          => /\ res.k = "Ok"
             /\ RandomThenSwitch(res.json.root)
             /\ Shape(res.json.root) = Shape(call.json.root)
    /\ (Converted /\ call.src = "original" /\ res.k = "Ok" /\ res.json.root.type = "Sequence"
           /\ LastEntries(call.data) = GlobalEntries)
          => /\ RandomThenSwitch(res.json.root)
             /\ Len(res.json.root.containers[1].containers) = 1
             /\ res.json.root.containers[2].switch_key = Symbol.key

\* the Sequence was rebuilt and converted back
C19_Witness ==
    /\ Converted /\ call.src = "rebuilt" /\ res.k = "Ok"
    /\ RandomThenSwitch(call.json.root)
    /\ MapOf(dlge, call.json) = dlge.lang_map
    /\ LastEntries(call.data) = GlobalEntries
    /\ RandomThenSwitch(res.json.root)

\* the weight that closes the last record of a stream, before the root tag
LastWeight(data) == SubSeq(data, Len(data) - 5, Len(data) - 2)

\* the doubles 1.0 and 0.0
F64One == [bits |-> <<1>> \o [i \in 1..52 |-> 0], frac |-> 52]
F64Zero == [bits |-> <<>>, frac |-> 0]

\* a Random whose last child carries a fraction as its weight
FractionLast(node) ==
    /\ node.type = "Random" /\ node.containers # <<>>
    /\ node.containers[Len(node.containers)].type = "WavFile"
    /\ IsSome(node.containers[Len(node.containers)].weight)
    /\ Unwrap(node.containers[Len(node.containers)].weight).kind = "f64"
    /\ Unwrap(node.containers[Len(node.containers)].weight).den = 16777215
LastFraction(node) == Unwrap(node.containers[Len(node.containers)].weight)

\* C20: without hex precision a weight 1.0 is encoded as hash 0xFFFFFF and
\* 0.0 as 0x000000, hash 0xFFFFFF decodes to the fraction 1.0 and 0x000000
\* to 0.0, and encoding (scale by 0xFFFFFF, round) the decoded fraction of a
\* 24-bit hash returns that hash.
C20_WeightRange ==
    /\ (Rebuilt /\ res.k = "Ok" /\ FractionLast(call.json.root))
          => /\ F64Div(LastFraction(call.json.root).num) = F64One
                   => LastWeight(res.file) = <<255, 255, 255, 0>>
             /\ F64Div(LastFraction(call.json.root).num) = F64Zero
                   => LastWeight(res.file) = ZERO32
    /\ (Converted /\ call.src = "original" /\ res.k = "Ok" /\ ~dlge.hex_precision
           /\ res.json.root.type = "Random" /\ res.json.root.containers # <<>>)
          => /\ FractionLast(res.json.root)
             /\ LastWeight(call.data) = <<255, 255, 255, 0>>
                   => F64Div(LastFraction(res.json.root).num) = F64One
             /\ LastWeight(call.data) = ZERO32
                   => F64Div(LastFraction(res.json.root).num) = F64Zero
             /\ WeightOfF64(LastFraction(res.json.root)) = LastWeight(call.data)
    /\ (Rebuilt /\ call.src = "converted" /\ ~dlge.hex_precision /\ FractionLast(call.json.root))
          => /\ res.k = "Ok"
             /\ LastWeight(res.file) = LastWeight(call.data)

\* the weight 0x555555 of an original was decoded to a fraction and encoded
\* again
C20_Witness ==
    /\ Rebuilt /\ call.src = "converted" /\ ~dlge.hex_precision /\ res.k = "Ok"
    /\ FractionLast(call.json.root)
    /\ LastWeight(call.data) = <<85, 85, 85, 0>>
    /\ LastWeight(res.file) = <<85, 85, 85, 0>>
    /\ F64Div(LastFraction(call.json.root).num) \notin {F64One, F64Zero}

DecoderStart ==
    [pos |-> 8, wav |-> EmptyMap, random |-> EmptyMap, switch |-> EmptyMap, sequence |-> EmptyMap,
     indices |-> [global |-> -1, wav |-> 0, random |-> 0, switch |-> 0, sequence |-> 0],
     globals |-> EmptyMap, err |-> OkRes]

RECURSIVE LoopStates(_, _, _, _)
LoopStates(self, meta, data, st) ==
    IF st.err.k # "Ok" \/ Remaining(data, st.pos) = 2 THEN <<st>>
    ELSE <<st>> \o LoopStates(self, meta, data, ConvertRecord(self, meta, data, st))

DecoderStates == IF Len(call.data) < 8 THEN <<DecoderStart>>
                 ELSE LoopStates(dlge, call.meta, call.data, DecoderStart)

\* the tag byte of the k-th record read
TagOf(states, k) == call.data[states[k].pos + 1]

\* the records read before the k-th whose tag is in kinds
Before(states, k, kinds) == Cardinality({j \in 1..(k - 1) : TagOf(states, j) \in kinds})

\* the pools of a decoder state by tag
PoolOf(st, tag) == CASE tag = 1 -> st.wav [] tag = 2 -> st.random [] tag = 3 -> st.switch
                     [] OTHER -> st.sequence

\* the k-th record was read as the claim says: s before it, t after it
NumberedAs(states, k, s, t) ==
    LET tag == TagOf(states, k)
        i == Before(states, k, {2, 3, 4})
        local == Before(states, k, {tag})
        counter == CASE tag = 1 -> "wav" [] tag = 2 -> "random" [] tag = 3 -> "switch"
                     [] OTHER -> "sequence"
    IN /\ s.indices[counter] = local
       /\ local \notin DOMAIN PoolOf(s, tag)
       /\ DOMAIN PoolOf(t, tag) = DOMAIN PoolOf(s, tag) \cup {local}
       /\ IF tag = 1
          THEN /\ t.indices = [s.indices EXCEPT !.wav = @ + 1]
               /\ t.globals = s.globals
               /\ t.random = s.random /\ t.switch = s.switch /\ t.sequence = s.sequence
          ELSE /\ t.indices = [s.indices EXCEPT ![counter] = @ + 1, !.global = i]
               /\ i \notin DOMAIN s.globals
               /\ t.globals = MapInsert(s.globals, i, local)

\* C22: the i-th Random, Switch or Sequence record of the stream is assigned
\* global index i, and the table of global indices maps i to its rank among
\* the records of its own kind; a WavFile record is inserted at the next
\* WavFile index and advances the WavFile counter alone.
C22_DecoderNumbering ==
    Converted =>
        \A k \in 1..(Len(DecoderStates) - 1) :
            DecoderStates[k + 1].err.k = "Ok" =>
                NumberedAs(DecoderStates, k, DecoderStates[k], DecoderStates[k + 1])

\* a stream of a WavFile, a Random, a WavFile and a Switch was read: the
\* Switch is the second container and the first of its kind
C22_Witness ==
    /\ Converted /\ res.k = "Ok" /\ Len(DecoderStates) >= 5
    /\ <<TagOf(DecoderStates, 1), TagOf(DecoderStates, 2), TagOf(DecoderStates, 3),
         TagOf(DecoderStates, 4)>> = <<1, 2, 1, 3>>
    /\ DecoderStates[5].globals = MapInsert(MapInsert(EmptyMap, 0, 0), 1, 0)
    /\ DecoderStates[5].indices.wav = 2

\* the instance as a rebuild of json runs it
RunOf(self, json) == [self EXCEPT !.lang_map = MapOf(self, json)]

\* the number of bytes the encoder writes for a node and all below it
SubtreeLen(self, node) == Len(process_container(self, EmptyWriter, node, FALSE).buf)

RECURSIVE SubtreesLen(_, _)
SubtreesLen(self, nodes) ==
    IF nodes = <<>> THEN 0 ELSE SubtreeLen(self, Head(nodes)) + SubtreesLen(self, Tail(nodes))

\* the bytes of node and all below it start at offset at of file: its
\* children follow one another from there, each laid out the same way, and
\* its own record, led by its type byte and counting its children, comes
\* after the last of them and ends the bytes of the node
RECURSIVE PostOrder(_, _, _, _)
PostOrder(self, node, at, file) ==
    IF node.type = "WavFile" THEN at + SubtreeLen(self, node) <= Len(file) /\ file[at + 1] = 1
    ELSE LET own == at + SubtreesLen(self, node.containers)
         IN /\ \A i \in 1..Len(node.containers) :
                   PostOrder(self, node.containers[i],
                             at + SubtreesLen(self, SubSeq(node.containers, 1, i - 1)), file)
            /\ own + 13 <= Len(file)
            /\ file[own + 1] = TypeCode(node)
            /\ SubSeq(file, own + 10, own + 13) = to_le_bytes32(Len(node.containers))
            /\ at + SubtreeLen(self, node) > own

\* the Random, Switch and Sequence nodes of a tree
Containers(node) == CountType(node, "Random") + CountType(node, "Switch") + CountType(node, "Sequence")

\* C23: in the stream of a successful rebuild the record of each Random,
\* Switch and Sequence comes after the records of all its descendants, the
\* record of the root is the last one, and the last two bytes are the root
\* tag: the type of the root with the WavFile index of a WavFile root, or
\* with the global index of the container emitted last.
C23_EmissionOrder ==
    (Rebuilt /\ res.k = "Ok" /\ call.json.root.type \in {"WavFile", "Random", "Switch", "Sequence"}) =>
        /\ PostOrder(RunOf(dlge, call.json), call.json.root, 8, res.file)
        /\ 8 + SubtreeLen(RunOf(dlge, call.json), call.json.root) = Len(res.file) - 2
        /\ SubSeq(res.file, Len(res.file) - 1, Len(res.file))
               = to_le_bytes16(4096 * TypeCode(call.json.root)
                               + (IF call.json.root.type = "WavFile" THEN 0
                                  ELSE Containers(call.json.root) - 1))

\* a Sequence over a Random with a child and a Switch with a child was rebuilt
C23_Witness ==
    /\ Rebuilt /\ res.k = "Ok" /\ call.json.root.type = "Sequence"
    /\ Len(call.json.root.containers) = 2
    /\ call.json.root.containers[1].type = "Random" /\ call.json.root.containers[1].containers # <<>>
    /\ call.json.root.containers[2].type = "Switch" /\ call.json.root.containers[2].containers # <<>>
    /\ SubSeq(res.file, Len(res.file) - 1, Len(res.file)) = <<2, 64>>

\* index is a position of the list deps that holds the identity path
Holds(deps, index, path) == index < Len(deps) /\ deps[index + 1].hash = path

\* the two reference indices at the head of the slot the encoder wrote for
\* language i of the root leaf
SlotRefs(self, json, file, i) ==
    LET slot == SlotWritten(self, json, file, i)
        p == IF self.version = "H2016" THEN 4 ELSE 0
    IN <<Val32(SubSeq(slot, p + 1, p + 4)), Val32(SubSeq(slot, p + 5, p + 8))>>

\* the two identities the encoder registers for language i of leaf wav, none
\* when it writes the sentinel
SlotPaths(self, wav, language) ==
    IF language = self.default_locale /\ IsSome(wav.default_wav) /\ IsSome(wav.default_ffx)
    THEN <<Unwrap(wav.default_wav), Unwrap(wav.default_ffx)>>
    ELSE IF language \in DOMAIN wav.languages /\ wav.languages[language].kind = "obj"
    THEN <<json_to_string(wav.languages[language].wav), json_to_string(wav.languages[language].ffx)>>
    ELSE <<>>

\* add_depend on the list deps: a known identity, a new one
Resolves(deps, fresh, flag) ==
    /\ \A k \in 1..Len(deps) :
          add_depend(deps, deps[k].hash, flag)
             = <<deps, (CHOOSE j \in 1..Len(deps) :
                          deps[j].hash = deps[k].hash
                          /\ \A m \in 1..(j - 1) : deps[m].hash # deps[k].hash) - 1>>
    /\ (\A k \in 1..Len(deps) : deps[k].hash # fresh)
          => add_depend(deps, fresh, flag) = <<Append(deps, [hash |-> fresh, flag |-> flag]), Len(deps)>>

\* the list of a rebuild holds no identity twice, and the indices the encoder
\* wrote for the root leaf are positions holding the identities asked for
Resolved(self, json, file, deps) ==
    /\ \A j, k \in 1..Len(deps) : deps[j].hash = deps[k].hash => j = k
    /\ json.root.type = "WavFile" =>
          \A i \in 1..Len(self.lang_map) :
              SlotPaths(self, json.root, self.lang_map[i]) # <<>> =>
                 /\ Holds(deps, SlotRefs(self, json, file, i)[1],
                          SlotPaths(self, json.root, self.lang_map[i])[1])
                 /\ Holds(deps, SlotRefs(self, json, file, i)[2],
                          SlotPaths(self, json.root, self.lang_map[i])[2])

\* C24: add_depend returns for a registered identity the index of its first
\* registration and leaves the list as it is, appends a new identity and
\* returns the previous length; the list of a rebuild holds no identity
\* twice, and every index written into the stream is a position of the
\* returned list that holds the identity it was requested for.
C24_DependencyIndices ==
    (Rebuilt /\ res.k = "Ok") =>
        /\ Resolves(res.meta.hash_reference_data, Text.w7F, <<56, 49>>)
        /\ Resolved(RunOf(dlge, call.json), call.json, res.file, res.meta.hash_reference_data)
        /\ Holds(res.meta.hash_reference_data, Val32(SubSeq(res.file, 1, 4)), call.json.ditl)
        /\ Holds(res.meta.hash_reference_data, Val32(SubSeq(res.file, 5, 8)), call.json.clng)

\* the records of the stream of the last call by tag
RecordsOf(tag) == Before(DecoderStates, Len(DecoderStates), {tag})

\* C25: a node moved out of its pool into a parent is removed from the pool,
\* so a later metadata entry naming it, in the same container or in another,
\* fails with an invalid-reference error; a tree decoded with success holds
\* no more nodes of a kind than the stream has records of that kind.
C25_SingleOwnership ==
    /\ (Converted /\ call.src = "malformed" /\ call.dangling = "twice") => res.k = "InvalidReference"
    /\ (Converted /\ res.k = "Ok") =>
          /\ CountType(res.json.root, "WavFile") <= RecordsOf(1)
          /\ CountType(res.json.root, "Random") <= RecordsOf(2)
          /\ CountType(res.json.root, "Switch") <= RecordsOf(3)
          /\ CountType(res.json.root, "Sequence") <= RecordsOf(4)

\* a Sequence naming the one Random of its stream twice was refused
C25_Witness ==
    /\ Converted /\ call.src = "malformed" /\ call.dangling = "twice"
    /\ RecordsOf(4) = 1 /\ RecordsOf(2) = 1
    /\ res.k = "InvalidReference" /\ res.v = 0

\* a node of a decoded tree carries a weight, carries case labels
Weighs(node) == node.type = "WavFile" /\ IsSome(node.weight)
Labelled(node) == node.type \in {"WavFile", "Random"} /\ IsSome(node.cases)

\* the shape of a decoded node under a parent of a kind ("root" above all)
RECURSIVE DecodedShape(_, _)
DecodedShape(node, parent) ==
    /\ CASE parent = "Random" -> node.type = "WavFile" /\ Weighs(node) /\ ~Labelled(node)
         [] parent = "Switch" -> node.type \in {"WavFile", "Random"} /\ Labelled(node) /\ ~Weighs(node)
         [] parent = "Sequence" -> node.type \in {"WavFile", "Random", "Switch"}
                                   /\ ~Weighs(node) /\ ~Labelled(node)
         [] OTHER -> ~Weighs(node) /\ ~Labelled(node)
    /\ node.type \in {"Random", "Switch", "Sequence"} =>
          \A i \in 1..Len(node.containers) : DecodedShape(node.containers[i], node.type)

\* C26: in a tree returned by a successful convert each child of a Random
\* is a WavFile with a weight and no case labels, each child of a Switch a
\* WavFile or Random with case labels (a WavFile without weight), each
\* child of a Sequence a WavFile, Random or Switch with neither, and the
\* root carries neither.
C26_DecodedShape == (Converted /\ res.k = "Ok") => DecodedShape(res.json.root, "root")

\* a Switch over a labelled Random over a weighted WavFile was decoded
C26_Witness ==
    /\ Converted /\ res.k = "Ok" /\ res.json.root.type = "Switch"
    /\ \E i \in 1..Len(res.json.root.containers) :
          /\ res.json.root.containers[i].type = "Random"
          /\ res.json.root.containers[i].cases # Some(<<>>)
          /\ res.json.root.containers[i].containers # <<>>
    /\ DecodedShape(res.json.root, "root")

\* C27: a 16-bit tag the encoder writes unpacks, as tag >> 12 and
\* tag & 0xFFF, to the type of the node and its full index, and no two
\* nodes of a document get the same tag: the n-th node of an index space
\* carries index n - 1, the root Sequence the global index that follows
\* those of its Random children.
C27_TagCapacity ==
    /\ IsSome(enc.last) =>
          /\ Unwrap(enc.last) \div 4096 = TypeCode(enc.child)
          /\ Unwrap(enc.last) % 4096 = enc.n - 1
          /\ enc.n > 1 => enc.last # enc.first
    /\ IsSome(enc.root) =>
          /\ Unwrap(enc.root) \div 4096 = 4
          /\ Unwrap(enc.root) % 4096 = (IF enc.child.type = "Random" THEN enc.n ELSE 0)

\* the tag of the record that was assigned global index g, 0 when none was
GlobalKind(g) ==
    LET at == {k \in 1..(Len(DecoderStates) - 1) :
                  TagOf(DecoderStates, k) \in {2, 3, 4} /\ Before(DecoderStates, k, {2, 3, 4}) = g}
    IN IF at = {} THEN 0 ELSE TagOf(DecoderStates, CHOOSE k \in at : TRUE)

\* the metadata entries of the Sequence records of the stream
SequenceRefs ==
    UNION {{m.type_index : m \in
               {Unwrap(ContainerRead(call.data, DecoderStates[k].pos)).metadata[i] :
                   i \in 1..Len(Unwrap(ContainerRead(call.data, DecoderStates[k].pos)).metadata)}} :
           k \in {k \in 1..(Len(DecoderStates) - 1) : TagOf(DecoderStates, k) = 4}}

\* the trailing root tag of the stream
RootRef == from_le_bytes16(BytesAt(call.data, Len(call.data) - 2, 2))

\* C28: a Sequence entry typed Random or Switch, and a root tag typed
\* Random, Switch or Sequence, that convert resolves with success names a
\* global index that was assigned to a record of that very type.
C28_TypedGlobal ==
    (Converted /\ res.k = "Ok") =>
        /\ \A ref \in SequenceRefs :
               ref \div 4096 \in {2, 3} => GlobalKind(ref % 4096) = ref \div 4096
        /\ RootRef \div 4096 \in {2, 3, 4} => GlobalKind(RootRef % 4096) = RootRef \div 4096

\* the nodes of a tree by the tag of their kind
NodesOf(node, tag) ==
    CountType(node, CASE tag = 1 -> "WavFile" [] tag = 2 -> "Random" [] tag = 3 -> "Switch"
                      [] OTHER -> "Sequence")

\* C29: when convert succeeds every record of the stream is the root of the
\* returned tree or below it: the tree holds as many nodes of each kind as
\* the stream has records of that kind.
C29_NoDroppedRecord ==
    (Converted /\ res.k = "Ok") => \A tag \in 1..4 : NodesOf(res.json.root, tag) = RecordsOf(tag)

\* the decoder when the record loop is left
LoopEnd == DecoderStates[Len(DecoderStates)]

====
